---- MODULE Spec2Model ----
(***************************************************************************)
(* A model of the yove RV32 emulator (betrusted-io/yove).                  *)
(*                                                                         *)
(* The module holds several state machines over one set of variables:      *)
(*   SpecAtomic   harts executing SW / AMO*.W / LR.W / SC.W on shared      *)
(*                physical words, one step per acquisition of the memory   *)
(*                lock (crates/riscv-cpu: instructions.rs, mmu.rs);        *)
(*   SpecThreads  the worker loop, the memory-command loop of              *)
(*                Machine::run and deferred syscall results (xous.rs);     *)
(*   SpecMem      the page allocator, the SV32 page tables and the         *)
(*                memory syscalls (xous.rs, xous/syscalls.rs);             *)
(*   SpecBus      connections and names of the service bus (xous.rs);      *)
(*   SpecTrap, SpecTick, SpecCsr                                           *)
(*                one hart: traps and interrupts, the result of a tick,    *)
(*                CSR instructions (crates/riscv-cpu: cpu.rs);             *)
(*   SpecMmu      SV32 address translation (crates/riscv-cpu: mmu.rs);     *)
(*   SpecRace     SpecMem with a guest store taken in the two             *)
(*                acquisitions of the memory lock it makes (mmu.rs);       *)
(*   SpecTimer    mutexes and condition variables of the ticktimer         *)
(*                service (xous/services/ticktimer.rs).                    *)
(* A variable that a state machine does not use keeps its initial value.   *)
(***************************************************************************)
EXTENDS Integers, Sequences, FiniteSets, TLC

VARIABLES
    \* ---- SpecAtomic
    amem,          \* physical word address -> u32 word (Memory::data)
    reservations,  \* hart id -> reserved physical address (Memory::reservations)
    rd,            \* hart -> value of the destination register of its instruction
    hst,           \* hart -> position inside the instruction it executes
    gh,            \* hart -> history of the run (not program state)
    \* ---- SpecThreads
    cpu,               \* thread id -> [st, pc, x] of its Worker and Cpu
    chan,              \* thread id -> values in flight on the channel it waits on
    tid_chan,          \* thread id -> thread ids in flight to its CreateThread call
    memory_cmd,        \* the MemoryCommand queue read by Machine::run
    joining_threads,   \* Machine::run: tid -> senders waiting for its exit
    exited_threads,    \* Machine::run: tids whose ExitThread was handled
    thread_id_counter, \* Machine::thread_id_counter
    join_tx,           \* join handles in flight to the joiner thread
    joiner,            \* position of the joiner thread of Machine::run
    machine,           \* "recv" while Machine::run loops, "done" after Exit
    svc_pending,       \* threads a service thread still owes a response
    gmem,              \* guest virtual byte address -> byte
    gt,                \* history of the run (not program state)
    \* ---- SpecMem
    data,                \* page number -> word index -> word (Memory::data)
    allocated_pages,     \* Memory::allocated_pages
    free_pages,          \* Memory::free_pages
    heap_size,           \* Memory::heap_size
    allocation_previous, \* Memory::allocation_previous
    panic,               \* "none", or the panic that unwound a call
    sys,                 \* the last operation, its size and result; n counts them
    \* ---- SpecBus
    connections,      \* connection id -> service ("none" when absent) (Memory::connections)
    connection_index, \* Memory::connection_index, the id the next lookup takes
    name_index,       \* connection id of a Name -> name -> id (Name::connection_index)
    spawned,          \* threads spawned by Name::lend_mut that have not run yet
    issued,           \* ids handed out so far (history, not program state)
    bcall,            \* arguments of the last bus call (history, not program state)
    \* ---- SpecTrap
    hart,             \* Cpu: privilege_mode, pc, csr and the Mmu's privilege_mode
    pending,          \* the CpuTrap the last tick returned to its caller, if any
    hh,               \* history of the run (not program state)
    \* ---- SpecMmu
    mmu,              \* Mmu: addressing_mode, privilege_mode, ppn, mstatus
    ptes,             \* physical address -> page-table word
    ram,              \* physical address -> data byte
    ma,               \* the last access and its result (history)
    \* ---- SpecTimer
    mutexes,          \* mutex index -> locked (Ticktimer::mutexes)
    mutex_unlockers,  \* mutex index -> callers whose wakeup sender is queued
    unlock_threads,   \* caller -> position of the thread lock_mutex spawned for it
    condvars,         \* condition index -> waiter count (Ticktimer::condvars)
    wait_threads,     \* caller -> position of the thread wait_for_condition spawned
    caller,           \* caller -> what its hart waits for, whether it holds the mutex
    tk,               \* the last call, a panic of the service, wake-ups owed (history)
    \* ---- SpecRace
    xlat              \* the store a hart has translated and not yet written

varsA == <<amem, reservations, rd, hst, gh>>

varsT == <<cpu, chan, tid_chan, memory_cmd, joining_threads, exited_threads,
           thread_id_counter, join_tx, joiner, machine, svc_pending, gmem, gt>>

varsM == <<data, allocated_pages, free_pages, heap_size, allocation_previous,
           panic, sys>>

varsB == <<connections, connection_index, name_index, spawned, issued, bcall>>

varsC == <<hart, pending, hh>>

varsG == <<mmu, ptes, ram, ma>>

varsK == <<mutexes, mutex_unlockers, unlock_threads, condvars, wait_threads,
           caller, tk>>

varsR == <<xlat>>

vars == <<varsA, varsT, varsM, varsB, varsC, varsG, varsK, varsR>>

\* What the actions of one machine leave alone.
othersA == <<varsT, varsM, varsB, varsC, varsG, varsK, varsR>>
othersT == <<varsA, varsM, varsB, varsC, varsG, varsK, varsR>>
othersM == <<varsA, varsT, varsB, varsC, varsG, varsK, varsR>>
othersB == <<varsA, varsT, varsC, varsG, varsK, varsR>>
othersC == <<varsA, varsT, varsM, varsB, varsG, varsK, varsR>>
othersG == <<varsA, varsT, varsM, varsB, varsC, varsK, varsR>>
othersK == <<varsA, varsT, varsM, varsB, varsC, varsG, varsR>>

\* ------------------------------------------------------------------------
\* Words.  A register or memory word is held as the signed 32-bit integer
\* (i32) the hart's register file holds; the arithmetic below wraps exactly
\* as wrapping_add and the "as u32" casts of the source do.

MinI32 == -2147483647 - 1

\* The low 31 bits of a word, and whether its bit 31 is set.
Low31(a) == IF a < 0 THEN (a + 2147483647) + 1 ELSE a
Bit31(a) == a < 0

wrapping_add(a, b) ==
    IF a >= 0 /\ b >= 0
    THEN IF a > 2147483647 - b THEN (a + MinI32) + (b + MinI32) ELSE a + b
    ELSE IF a < 0 /\ b < 0
         THEN IF a < MinI32 - b THEN (a - MinI32) + (b - MinI32) ELSE a + b
         ELSE a + b

RECURSIVE BitAndN(_, _, _)
BitAndN(a, b, n) ==
    IF n = 0 THEN 0
    ELSE (IF a % 2 = 1 /\ b % 2 = 1 THEN 1 ELSE 0) + 2 * BitAndN(a \div 2, b \div 2, n - 1)

RECURSIVE BitOrN(_, _, _)
BitOrN(a, b, n) ==
    IF n = 0 THEN 0
    ELSE (IF a % 2 = 1 \/ b % 2 = 1 THEN 1 ELSE 0) + 2 * BitOrN(a \div 2, b \div 2, n - 1)

BitAnd(a, b) ==
    (IF Bit31(a) /\ Bit31(b) THEN MinI32 ELSE 0) + BitAndN(Low31(a), Low31(b), 31)

BitOr(a, b) ==
    (IF Bit31(a) \/ Bit31(b) THEN MinI32 ELSE 0) + BitOrN(Low31(a), Low31(b), 31)

\* a >= b with both words read as u32.
GeU32(a, b) ==
    IF Bit31(a) = Bit31(b) THEN a >= b ELSE Bit31(a)

\* ------------------------------------------------------------------------
\* SpecAtomic: atomics on the shared store

Harts == {0, 1}

\* Two word-aligned physical addresses of the shared store.
PA == {4096, 4100}

\* Operand values held in rs2 (-1 is 0xFFFFFFFF).
Vals == {1, -1}

\* Instructions the harts may issue, together, in one run.
MaxInstr == 3

AmoOps == {"AMOADD.W", "AMOAND.W", "AMOOR.W", "AMOSWAP.W", "AMOMAXU.W"}

load_word_raw(m, p_address) == m[p_address]

store_word_raw(m, p_address, value) == [m EXCEPT ![p_address] = value]

\* Variant: one reservation slot shared by every hart.
reserve_shared(res, core, p_address) == [c \in {0} |-> p_address]

reserve(res, core, p_address) ==
    [c \in DOMAIN res \cup {core} |-> IF c = core THEN p_address ELSE res[c]]

\* Variant: the reservation is compared but left in place.
clear_reservation_keep(res, core, p_address) ==
    [ok |-> core \in DOMAIN res /\ res[core] = p_address, res |-> res]

clear_reservation(res, core, p_address) ==
    [ok  |-> core \in DOMAIN res /\ res[core] = p_address,
     res |-> [c \in DOMAIN res \ {core} |-> res[c]]]

\* The word an AMO writes back, from rs2 and the word it loaded.
amo_value(op, rs2, tmp) ==
    CASE op = "AMOADD.W"  -> wrapping_add(rs2, tmp)
      [] op = "AMOAND.W"  -> BitAnd(rs2, tmp)
      [] op = "AMOOR.W"   -> BitOr(rs2, tmp)
      [] op = "AMOSWAP.W" -> rs2
      [] op = "AMOMAXU.W" -> IF GeU32(rs2, tmp) THEN rs2 ELSE tmp

Idle == [pc |-> "fetch", op |-> "none", addr |-> 0, val |-> 0, tmp |-> 0]

\* A hart between instructions; op and addr are those of the instruction it
\* completed last.
Done(op, a) == [Idle EXCEPT !.op = op, !.addr = a]

Entry(res, h) == IF h \in DOMAIN res THEN res[h] ELSE 0

\* History: n counts the instructions hart h has issued; lr is the address of
\* h's LR.W when that is the last instruction h completed (0 otherwise); seen
\* holds what the other harts did since that LR.W completed: "store", a write
\* of the reserved word; "sc", an SC.W issued on the reserved address;
\* "other", an LR.W or SC.W issued on another address; stolen, a step of
\* another hart changed h's entry of the reservation map; chain counts how
\* far h is through LR.W P, SC.W P (success), SC.W P (failure).
GhInit == [n |-> 0, lr |-> 0, seen |-> {}, stolen |-> FALSE, chain |-> 0]

\* What a step of hart actor does to hart h's reserved address r.
Seen(r, op, a, wrote) ==
    (IF wrote = r THEN {"store"} ELSE {})
      \cup (IF op = "SC.W" /\ a = r THEN {"sc"} ELSE {})
      \cup (IF op \in {"LR.W", "SC.W"} /\ a # r THEN {"other"} ELSE {})

\* issue: the step issues instruction op on address a; lrDone: it completes
\* an LR.W; wrote: the address it writes (0: none); ok: an issued SC.W
\* succeeds.
GhNext(actor, issue, op, a, lrDone, wrote, ok, resNew) ==
    [h \in Harts |->
        IF h = actor
        THEN IF lrDone
             THEN [gh[h] EXCEPT !.lr = a, !.seen = {}, !.stolen = FALSE, !.chain = 1]
             ELSE IF issue
                  THEN [gh[h] EXCEPT
                          !.n = @ + 1, !.lr = 0,
                          !.chain = IF op = "SC.W" /\ a = hst[h].addr /\ @ = 1 /\ ok
                                    THEN 2
                                    ELSE IF op = "SC.W" /\ a = hst[h].addr /\ @ = 2 /\ ~ok
                                         THEN 3
                                         ELSE IF op = "LR.W" THEN @ ELSE 0]
                  ELSE gh[h]
        ELSE IF gh[h].lr = 0 THEN gh[h]
             ELSE [gh[h] EXCEPT
                     !.seen = @ \cup Seen(gh[h].lr, IF issue THEN op ELSE "none", a, wrote),
                     !.stolen = @ \/ Entry(resNew, h) # Entry(reservations, h)]]

RECURSIVE Issued(_)
Issued(S) == IF S = {} THEN 0 ELSE LET h == CHOOSE x \in S : TRUE IN gh[h].n + Issued(S \ {h})

CanIssue(h) == hst[h].pc = "fetch" /\ Issued(Harts) < MaxInstr

\* SW: one store through the memory lock.
Store(h, a, v) ==
    /\ CanIssue(h)
    /\ amem' = store_word_raw(amem, a, v)
    /\ hst' = [hst EXCEPT ![h] = Done("SW", a)]
    /\ gh' = GhNext(h, TRUE, "SW", a, FALSE, a, FALSE, reservations)
    /\ UNCHANGED <<reservations, rd>>
    /\ UNCHANGED othersA

\* AMO*.W, first half: load_word takes the lock, reads and releases it.
AmoLoad(h, op, a, v) ==
    /\ CanIssue(h)
    /\ hst' = [hst EXCEPT ![h] = [pc |-> "amo_store", op |-> op, addr |-> a,
                                  val |-> v, tmp |-> load_word_raw(amem, a)]]
    /\ gh' = GhNext(h, TRUE, op, a, FALSE, 0, FALSE, reservations)
    /\ UNCHANGED <<amem, reservations, rd>>
    /\ UNCHANGED othersA

\* AMO*.W, second half: store_word takes the lock again; rd receives the
\* loaded word.
AmoStore(h) ==
    /\ hst[h].pc = "amo_store"
    /\ amem' = store_word_raw(amem, hst[h].addr,
                              amo_value(hst[h].op, hst[h].val, hst[h].tmp))
    /\ rd' = [rd EXCEPT ![h] = hst[h].tmp]
    /\ hst' = [hst EXCEPT ![h] = Done(hst[h].op, hst[h].addr)]
    /\ gh' = GhNext(h, FALSE, hst[h].op, hst[h].addr, FALSE, hst[h].addr, FALSE,
                     reservations)
    /\ UNCHANGED reservations
    /\ UNCHANGED othersA

\* LR.W, first half: rd receives the loaded word.
LrLoad(h, a) ==
    /\ CanIssue(h)
    /\ rd' = [rd EXCEPT ![h] = load_word_raw(amem, a)]
    /\ hst' = [hst EXCEPT ![h] = [Idle EXCEPT !.pc = "lr_reserve", !.op = "LR.W",
                                              !.addr = a]]
    /\ gh' = GhNext(h, TRUE, "LR.W", a, FALSE, 0, FALSE, reservations)
    /\ UNCHANGED <<amem, reservations>>
    /\ UNCHANGED othersA

\* LR.W, second half: the reservation is installed.
LrReserve(h) ==
    /\ hst[h].pc = "lr_reserve"
    /\ reservations' = reserve(reservations, h, hst[h].addr)
    /\ hst' = [hst EXCEPT ![h] = Done("LR.W", hst[h].addr)]
    /\ gh' = GhNext(h, FALSE, "LR.W", hst[h].addr, TRUE, 0, FALSE, reservations')
    /\ UNCHANGED <<amem, rd>>
    /\ UNCHANGED othersA

\* SC.W, first half: clear_reservation decides; on failure rd receives 1.
ScClear(h, a, v) ==
    /\ CanIssue(h)
    /\ LET r == clear_reservation(reservations, h, a) IN
        /\ reservations' = r.res
        /\ hst' = [hst EXCEPT ![h] =
                        IF r.ok THEN [Idle EXCEPT !.pc = "sc_store", !.op = "SC.W",
                                                  !.addr = a, !.val = v]
                        ELSE Done("SC.W", a)]
        /\ rd' = IF r.ok THEN rd ELSE [rd EXCEPT ![h] = 1]
        /\ gh' = GhNext(h, TRUE, "SC.W", a, FALSE, 0, r.ok, r.res)
    /\ UNCHANGED amem
    /\ UNCHANGED othersA

\* SC.W, second half: the store, then rd receives 0.
ScStore(h) ==
    /\ hst[h].pc = "sc_store"
    /\ amem' = store_word_raw(amem, hst[h].addr, hst[h].val)
    /\ rd' = [rd EXCEPT ![h] = 0]
    /\ hst' = [hst EXCEPT ![h] = Done("SC.W", hst[h].addr)]
    /\ gh' = GhNext(h, FALSE, "SC.W", hst[h].addr, FALSE, hst[h].addr, FALSE,
                     reservations)
    /\ UNCHANGED reservations
    /\ UNCHANGED othersA

InitA ==
    /\ amem = [a \in PA |-> 0]
    /\ reservations = <<>>
    /\ rd = [h \in Harts |-> 0]
    /\ hst = [h \in Harts |-> Idle]
    /\ gh = [h \in Harts |-> GhInit]

NextA ==
    \E h \in Harts :
        \/ \E a \in PA, v \in Vals : Store(h, a, v)
        \/ \E op \in AmoOps, a \in PA, v \in Vals : AmoLoad(h, op, a, v)
        \/ AmoStore(h)
        \/ \E a \in PA : LrLoad(h, a)
        \/ LrReserve(h)
        \/ \E a \in PA, v \in Vals : ScClear(h, a, v)
        \/ ScStore(h)

\* ------------------------------------------------------------------------
\* SpecThreads: workers, Machine::run and deferred syscall results

\* Threads the machine may hold, the first one included.
MaxThreads == 3

\* Instructions the harts may execute, together, in one run.
MaxTicks == 6

Tids == 0 .. (MaxThreads - 1)

SYS_SendMessage == 16
SYS_CreateThread == 18
SYS_JoinThread == 36

RES_ThreadId == 10
RES_Scalar1 == 14
RES_MemoryReturned == 18

\* The address whose instruction page fault ends a thread (0xff803000 as i32).
EXIT_THREAD_PC == -8376320

\* Entry point of the loaded program.
ENTRY_PC == 65536

\* Registers held by the model: sp, t0 and a0..a7.
Regs == {2, 5} \cup (10 .. 17)

\* Immediates of the LI instructions of the guest, and their targets.
ImmVals == {7, SYS_SendMessage, SYS_CreateThread, SYS_JoinThread}
LiRegs == {5, 10}

\* The guest buffer lent to services.
GuestBuf == 8192 .. 8195

\* What a service thread may send: a register image with or without bytes.
ServiceImages == {<<RES_MemoryReturned, 0, 0, 0, 0, 0, 0, 0>>,
                  <<RES_Scalar1, 1, 2, 3, 4, 5, 6, 7>>}
ServiceData == {[some |-> FALSE, bytes |-> <<>>, dest |-> 0],
                [some |-> TRUE, bytes |-> <<1>>, dest |-> 8193],
                [some |-> TRUE, bytes |-> <<2, 3>>, dest |-> 8192]}

NoData == [some |-> FALSE, bytes |-> <<>>, dest |-> 0]

ZeroRegs == [r \in Regs |-> 0]

\* Cpu::write_register
write_register(x, reg, val) ==
    IF reg = 0 \/ reg \notin DOMAIN x THEN x ELSE [x EXCEPT ![reg] = val]

RECURSIVE write_image_from(_, _, _, _)
write_image_from(x, first, result, index) ==
    IF index > Len(result) THEN x
    ELSE write_image_from(write_register(x, first + (index - 1), result[index]),
                          first, result, index + 1)

\* Variant: the image lands one register too high.
resume_registers_shift(x, result) == write_image_from(x, 11, result, 1)

\* Worker::run, PauseEmulation arm: the image goes to registers 10 + index.
resume_registers(x, result) == write_image_from(x, 10, result, 1)

\* Worker::run, PauseEmulation arm: byte offset of the block goes to start + offset.
RECURSIVE store_bytes(_, _, _, _)
store_bytes(m, start, bytes, index) ==
    IF index > Len(bytes) THEN m
    ELSE store_bytes([m EXCEPT ![start + (index - 1)] = bytes[index]],
                     start, bytes, index + 1)

Scalar1Image(value) == <<RES_Scalar1, value, 0, 0, 0, 0, 0, 0>>

\* No thread is inside a syscall that holds the memory lock.
LockFree == \A t \in Tids : cpu[t].st # "creating"

CanTick(t) ==
    /\ cpu[t].st = "running"
    /\ LockFree
    /\ gt.ticks < MaxTicks

Ticked(t) == [gt EXCEPT !.ticks = @ + 1, !.n[t] = @ + 1]

UnchangedMachine ==
    UNCHANGED <<joining_threads, exited_threads, thread_id_counter, join_tx,
                joiner, machine>>

\* An instruction that writes an immediate to a register.
LI(t, r, v) ==
    /\ CanTick(t)
    /\ cpu[t].pc # EXIT_THREAD_PC
    /\ cpu' = [cpu EXCEPT ![t].pc = @ + 4, ![t].x = write_register(@, r, v)]
    /\ gt' = Ticked(t)
    /\ UNCHANGED <<chan, tid_chan, memory_cmd, svc_pending, gmem>>
    /\ UnchangedMachine
    /\ UNCHANGED othersT

\* A jump to the thread-exit address (the return of the thread's function).
Jump(t) ==
    /\ CanTick(t)
    /\ cpu[t].pc # EXIT_THREAD_PC
    /\ cpu' = [cpu EXCEPT ![t].pc = EXIT_THREAD_PC]
    /\ gt' = Ticked(t)
    /\ UNCHANGED <<chan, tid_chan, memory_cmd, svc_pending, gmem>>
    /\ UnchangedMachine
    /\ UNCHANGED othersT

\* tick: the fetch at the exit address faults; the worker sends
\* ExitThread(tid, a0) and returns.
ExitTick(t) ==
    /\ CanTick(t)
    /\ cpu[t].pc = EXIT_THREAD_PC
    /\ memory_cmd' = Append(memory_cmd,
                            [kind |-> "ExitThread", tid |-> t, result |-> cpu[t].x[10]])
    /\ cpu' = [cpu EXCEPT ![t].st = "exited"]
    /\ gt' = [Ticked(t) EXCEPT !.exit_value = @ @@ (t :> cpu[t].x[10])]
    /\ UNCHANGED <<chan, tid_chan, svc_pending, gmem>>
    /\ UnchangedMachine
    /\ UNCHANGED othersT

\* tick: any other trap; the worker sends ExitThread(tid, 1) and returns.
TrapTick(t) ==
    /\ CanTick(t)
    /\ cpu[t].pc # EXIT_THREAD_PC
    /\ memory_cmd' = Append(memory_cmd,
                            [kind |-> "ExitThread", tid |-> t, result |-> 1])
    /\ cpu' = [cpu EXCEPT ![t].st = "exited"]
    /\ gt' = [Ticked(t) EXCEPT !.exit_value = @ @@ (t :> 1)]
    /\ UNCHANGED <<chan, tid_chan, svc_pending, gmem>>
    /\ UnchangedMachine
    /\ UNCHANGED othersT

\* ECALL with a0 = JoinThread: the request is queued and the syscall is
\* deferred; tick returns PauseEmulation with pc already past the ECALL.
EcallJoinThread(t) ==
    /\ CanTick(t)
    /\ cpu[t].pc # EXIT_THREAD_PC
    /\ cpu[t].x[10] = SYS_JoinThread
    /\ memory_cmd' = Append(memory_cmd,
                            [kind |-> "JoinThread", tid |-> cpu[t].x[11], sender |-> t])
    /\ cpu' = [cpu EXCEPT ![t].pc = @ + 4, ![t].st = "paused"]
    /\ gt' = [Ticked(t) EXCEPT !.ecall_pc[t] = cpu[t].pc, !.joinreq[t] = cpu[t].x[11],
                               !.resumed[t] = "no"]
    /\ UNCHANGED <<chan, tid_chan, svc_pending, gmem>>
    /\ UnchangedMachine
    /\ UNCHANGED othersT

\* ECALL with a0 = SendMessage to a service whose handler answers
\* WaitForResponse: a service thread owes the response.
EcallSendMessage(t) ==
    /\ CanTick(t)
    /\ cpu[t].pc # EXIT_THREAD_PC
    /\ cpu[t].x[10] = SYS_SendMessage
    /\ svc_pending' = svc_pending \cup {t}
    /\ cpu' = [cpu EXCEPT ![t].pc = @ + 4, ![t].st = "paused"]
    /\ gt' = [Ticked(t) EXCEPT !.ecall_pc[t] = cpu[t].pc, !.joinreq[t] = -1,
                               !.resumed[t] = "no"]
    /\ UNCHANGED <<chan, tid_chan, memory_cmd, gmem>>
    /\ UnchangedMachine
    /\ UNCHANGED othersT

\* The service thread sends its response.
ServiceRespond(t, image, block) ==
    /\ t \in svc_pending
    /\ svc_pending' = svc_pending \ {t}
    /\ chan' = [chan EXCEPT ![t] = Append(@, [image |-> image, data |-> block])]
    /\ UNCHANGED <<cpu, tid_chan, memory_cmd, gmem, gt>>
    /\ UnchangedMachine
    /\ UNCHANGED othersT

\* Worker::run, PauseEmulation arm: recv returns; bytes, then registers.
Resume(t) ==
    /\ cpu[t].st = "paused"
    /\ chan[t] # <<>>
    /\ LET m == Head(chan[t]) IN
        /\ gmem' = IF m.data.some
                   THEN store_bytes(gmem, m.data.dest, m.data.bytes, 1)
                   ELSE gmem
        /\ cpu' = [cpu EXCEPT ![t].x = resume_registers(@, m.image),
                              ![t].st = "running"]
        /\ gt' = [gt EXCEPT !.resumed[t] = IF m.data.some THEN "data" ELSE "plain"]
    /\ chan' = [chan EXCEPT ![t] = Tail(@)]
    /\ UNCHANGED <<tid_chan, memory_cmd, svc_pending>>
    /\ UnchangedMachine
    /\ UNCHANGED othersT

\* ECALL with a0 = CreateThread: the command is queued and the syscall waits
\* for the thread id with the memory lock held.
EcallCreateThread(t) ==
    /\ CanTick(t)
    /\ cpu[t].pc # EXIT_THREAD_PC
    /\ cpu[t].x[10] = SYS_CreateThread
    /\ thread_id_counter < MaxThreads
    /\ memory_cmd' = Append(memory_cmd,
                            [kind |-> "CreateThread", entry_point |-> cpu[t].x[11],
                             stack_pointer |-> cpu[t].x[12],
                             stack_length |-> cpu[t].x[13],
                             arguments |-> <<cpu[t].x[14], cpu[t].x[15],
                                             cpu[t].x[16], cpu[t].x[17]>>,
                             sender |-> t])
    /\ cpu' = [cpu EXCEPT ![t].pc = @ + 4, ![t].st = "creating"]
    /\ gt' = Ticked(t)
    /\ UNCHANGED <<chan, tid_chan, svc_pending, gmem>>
    /\ UnchangedMachine
    /\ UNCHANGED othersT

\* The thread id arrives; the ECALL copies the result to a0..a7 and returns.
CreateThreadReturn(t) ==
    /\ cpu[t].st = "creating"
    /\ tid_chan[t] # <<>>
    /\ cpu' = [cpu EXCEPT
                 ![t].x = write_image_from(@, 10,
                              <<RES_ThreadId, Head(tid_chan[t]), 0, 0, 0, 0, 0, 0>>, 1),
                 ![t].st = "running"]
    /\ tid_chan' = [tid_chan EXCEPT ![t] = Tail(@)]
    /\ UNCHANGED <<chan, memory_cmd, svc_pending, gmem, gt>>
    /\ UnchangedMachine
    /\ UNCHANGED othersT

\* Machine::run, `while let Ok(msg) = self.memory_cmd.recv()`.
MachineRecv(kind) ==
    /\ machine = "recv"
    /\ memory_cmd # <<>>
    /\ Head(memory_cmd).kind = kind
    /\ memory_cmd' = Tail(memory_cmd)

\* Machine::run, JoinThread arm.
MachineJoinThread ==
    /\ MachineRecv("JoinThread")
    /\ LET msg == Head(memory_cmd) IN
        IF msg.tid \in exited_threads
        THEN /\ chan' = [chan EXCEPT ![msg.sender] =
                             Append(@, [image |-> Scalar1Image(0), data |-> NoData])]
             /\ UNCHANGED joining_threads
        ELSE /\ joining_threads' =
                    IF msg.tid \in DOMAIN joining_threads
                    THEN [joining_threads EXCEPT ![msg.tid] = Append(@, msg.sender)]
                    ELSE joining_threads @@ (msg.tid :> <<msg.sender>>)
             /\ UNCHANGED chan
    /\ UNCHANGED <<cpu, tid_chan, exited_threads, thread_id_counter, join_tx, joiner,
                   machine, svc_pending, gmem, gt>>
    /\ UNCHANGED othersT

\* Machine::run, ExitThread arm.
MachineExitThread ==
    /\ MachineRecv("ExitThread")
    /\ LET msg == Head(memory_cmd)
           joiners == IF msg.tid \in DOMAIN joining_threads
                      THEN joining_threads[msg.tid] ELSE <<>>
       IN
        /\ exited_threads' = exited_threads \cup {msg.tid}
        /\ joining_threads' =
               [t \in DOMAIN joining_threads \ {msg.tid} |-> joining_threads[t]]
        /\ chan' = [t \in Tids |->
                       chan[t] \o
                       [i \in 1 .. Len(SelectSeq(joiners, LAMBDA j : j = t)) |->
                           [image |-> Scalar1Image(msg.result), data |-> NoData]]]
    /\ UNCHANGED <<cpu, tid_chan, thread_id_counter, join_tx, joiner, machine,
                   svc_pending, gmem, gt>>
    /\ UNCHANGED othersT

\* Machine::run, CreateThread arm: a new Cpu at the entry point with sp and
\* a0..a3 set, the next thread id, its join handle, and the id sent back.
MachineCreateThread ==
    /\ MachineRecv("CreateThread")
    /\ LET msg == Head(memory_cmd)
           tid == thread_id_counter
           x0  == write_register(ZeroRegs, 2,
                                 (msg.stack_pointer + msg.stack_length) - 16)
           x   == write_image_from(x0, 10, msg.arguments, 1)
       IN
        /\ cpu' = [cpu EXCEPT ![tid] = [st |-> "running", pc |-> msg.entry_point,
                                        x |-> x]]
        /\ thread_id_counter' = thread_id_counter + 1
        /\ join_tx' = Append(join_tx, tid)
        /\ tid_chan' = [tid_chan EXCEPT ![msg.sender] = Append(@, tid)]
    /\ UNCHANGED <<chan, joining_threads, exited_threads, joiner, machine,
                   svc_pending, gmem, gt>>
    /\ UNCHANGED othersT

\* Machine::run, Exit arm: the loop ends.
MachineExit ==
    /\ MachineRecv("Exit")
    /\ machine' = "done"
    /\ UNCHANGED <<cpu, chan, tid_chan, joining_threads, exited_threads,
                   thread_id_counter, join_tx, joiner, svc_pending, gmem, gt>>
    /\ UNCHANGED othersT

\* The joiner thread: try_recv yields the next handle, or the queue is
\* empty and Exit is sent.
JoinerTryRecv ==
    /\ joiner.pc = "try_recv"
    /\ IF join_tx # <<>>
       THEN /\ joiner' = [pc |-> "join", tid |-> Head(join_tx)]
            /\ join_tx' = Tail(join_tx)
            /\ UNCHANGED memory_cmd
       ELSE /\ joiner' = [pc |-> "done", tid |-> joiner.tid]
            /\ memory_cmd' = Append(memory_cmd, [kind |-> "Exit"])
            /\ UNCHANGED join_tx
    /\ UNCHANGED <<cpu, chan, tid_chan, joining_threads, exited_threads,
                   thread_id_counter, machine, svc_pending, gmem, gt>>
    /\ UNCHANGED othersT

\* The joiner thread: join returns once the worker has returned.
JoinerJoin ==
    /\ joiner.pc = "join"
    /\ cpu[joiner.tid].st = "exited"
    /\ joiner' = [joiner EXCEPT !.pc = "try_recv"]
    /\ UNCHANGED <<cpu, chan, tid_chan, memory_cmd, joining_threads, exited_threads,
                   thread_id_counter, join_tx, machine, svc_pending, gmem, gt>>
    /\ UNCHANGED othersT

\* The state after Machine::new and the first lines of Machine::run: thread
\* 0 runs at the entry point and its handle is on its way to the joiner.
InitT ==
    /\ cpu = [t \in Tids |->
                 IF t = 0
                 THEN [st |-> "running", pc |-> ENTRY_PC,
                       x |-> write_register(ZeroRegs, 2, -16)]
                 ELSE [st |-> "none", pc |-> 0, x |-> ZeroRegs]]
    /\ chan = [t \in Tids |-> <<>>]
    /\ tid_chan = [t \in Tids |-> <<>>]
    /\ memory_cmd = <<>>
    /\ joining_threads = <<>>
    /\ exited_threads = {}
    /\ thread_id_counter = 1
    /\ join_tx = <<0>>
    /\ joiner = [pc |-> "try_recv", tid |-> 0]
    /\ machine = "recv"
    /\ svc_pending = {}
    /\ gmem = [a \in GuestBuf |-> 0]
    /\ gt = [ticks |-> 0, n |-> [t \in Tids |-> 0],
             ecall_pc |-> [t \in Tids |-> 0], joinreq |-> [t \in Tids |-> -1],
             resumed |-> [t \in Tids |-> "no"], exit_value |-> <<>>]

NextT ==
    \/ \E t \in Tids :
          \/ \E r \in LiRegs, v \in ImmVals : LI(t, r, v)
          \/ Jump(t)
          \/ ExitTick(t)
          \/ TrapTick(t)
          \/ EcallJoinThread(t)
          \/ EcallSendMessage(t)
          \/ \E image \in ServiceImages, block \in ServiceData :
                 ServiceRespond(t, image, block)
          \/ Resume(t)
          \/ EcallCreateThread(t)
          \/ CreateThreadReturn(t)
    \/ MachineJoinThread
    \/ MachineExitThread
    \/ MachineCreateThread
    \/ MachineExit
    \/ JoinerTryRecv
    \/ JoinerJoin

\* ------------------------------------------------------------------------
\* SpecMem: the page allocator, the page tables and the memory syscalls
\*
\* A physical page is named by its page number (its address >> 12), a
\* physical address by page number and byte offset; a word of a page by its
\* index (byte offset / 4).  Virtual addresses are plain numbers.

\* Pages of the backing pool.
PoolPages == 5

\* The last page-table slot (vpn0) of each window of virtual addresses used.
MaxSlot == 1

\* Operations (syscalls, loader calls, guest stores) in one run.
MaxOps == 4

MEMORY_BASE_PPN == 524288
HEAP_START == 1610612736
ALLOC_START == 1073741824

MMUFLAG_VALID == 1
MMUFLAG_READABLE == 2
MMUFLAG_WRITABLE == 4
MMUFLAG_EXECUTABLE == 8
MMUFLAG_USERMODE == 16
MMUFLAG_ACCESSED == 64
MMUFLAG_DIRTY == 128

RES_Ok == 0
RES_Error == 1
RES_MemoryRange == 3
ERR_OutOfMemory == 3

Pool == MEMORY_BASE_PPN .. (MEMORY_BASE_PPN + PoolPages - 1)

\* Memory::l1_pt, as a page number.
l1_pt == MEMORY_BASE_PPN + 1

VPN1(virt) == (virt \div 4194304) % 1024
VPN0(virt) == (virt \div 4096) % 1024

\* Word indices of a page that the model stores: the slots 0 .. MaxSlot and
\* the root-table slots of the two windows.  No step writes another word, so
\* every other word of a pool page is 0, as Memory::new left it.
TrackedWords == (0 .. MaxSlot) \cup {VPN1(ALLOC_START), VPN1(HEAP_START)}

\* Page-aligned virtual addresses of the two windows.
WindowPages(base) == {base + 4096 * k : k \in 0 .. MaxSlot}
VPages == WindowPages(ALLOC_START) \cup WindowPages(HEAP_START)

\* The page number field of a PTE as `(pte >> 10) << 12` keeps it in a u32.
PtePpn(pte) == (pte \div 1024) % 1048576
HasFlag(pte, flag) == (pte \div flag) % 2 = 1
HasRWX(pte) == (pte \div 2) % 8 # 0

TablePte(ppn) == ppn * 1024 + MMUFLAG_VALID + MMUFLAG_DIRTY + MMUFLAG_ACCESSED
LeafPte(ppn) ==
    ppn * 1024 + MMUFLAG_VALID + MMUFLAG_WRITABLE + MMUFLAG_READABLE
      + MMUFLAG_EXECUTABLE + MMUFLAG_USERMODE + MMUFLAG_DIRTY + MMUFLAG_ACCESSED

read_u32(m, ppn, index) ==
    IF ppn \in DOMAIN m.data /\ index \in TrackedWords THEN m.data[ppn][index] ELSE 0

write_u32(m, ppn, index, value) ==
    IF ppn \in DOMAIN m.data /\ index \in TrackedWords
    THEN [m EXCEPT !.data[ppn][index] = value]
    ELSE m

Panic(m, why) == [m EXCEPT !.panic = why]

None == [some |-> FALSE, ppn |-> 0, offset |-> 0]

virt_to_phys_l0(virt, l1_pt_entry, l0_pt_entry) ==
    IF ~HasFlag(l1_pt_entry, MMUFLAG_VALID) THEN None
    ELSE IF HasRWX(l1_pt_entry) THEN None
    ELSE IF ~HasFlag(l0_pt_entry, MMUFLAG_VALID) THEN None
    ELSE [some |-> TRUE, ppn |-> PtePpn(l0_pt_entry), offset |-> virt % 4096]

virt_to_phys_l1(m, virt, l1_pt_entry) ==
    virt_to_phys_l0(virt, l1_pt_entry,
                    read_u32(m, PtePpn(l1_pt_entry), VPN0(virt)))

virt_to_phys(m, virt) == virt_to_phys_l1(m, virt, read_u32(m, l1_pt, VPN1(virt)))

\* BTreeSet::pop_first
First(S) == CHOOSE p \in S : \A q \in S : p <= q

\* Variant: the page is taken without leaving the free set.
allocate_page_keep(m) ==
    IF m.free_pages = {}
    THEN [m |-> Panic(m, "out of memory"), phys |-> 0]
    ELSE [m |-> [m EXCEPT !.allocated_pages = @ \cup {First(m.free_pages)}],
          phys |-> First(m.free_pages)]

allocate_page(m) ==
    IF m.free_pages = {}
    THEN [m |-> Panic(m, "out of memory"), phys |-> 0]
    ELSE IF First(m.free_pages) \in m.allocated_pages
         THEN [m |-> Panic([m EXCEPT !.free_pages = @ \ {First(m.free_pages)}],
                           "assert"),
               phys |-> 0]
         ELSE [m |-> [m EXCEPT !.free_pages = @ \ {First(m.free_pages)},
                               !.allocated_pages = @ \cup {First(m.free_pages)}],
               phys |-> First(m.free_pages)]

\* free_page from the removal from the allocated set on.
free_page_move(m, virt, phys, l1_pt_entry) ==
    IF phys.offset # 0 \/ phys.ppn \notin m.allocated_pages
    THEN [m |-> Panic(m, "not allocated"), ok |-> FALSE]
    ELSE IF phys.ppn \in m.free_pages
         THEN [m |-> Panic([m EXCEPT !.allocated_pages = @ \ {phys.ppn}], "assert"),
               ok |-> FALSE]
         ELSE [m |-> write_u32([m EXCEPT !.allocated_pages = @ \ {phys.ppn},
                                         !.free_pages = @ \cup {phys.ppn}],
                               PtePpn(l1_pt_entry), VPN0(virt), 0),
               ok |-> TRUE]

free_page_entry(m, virt, phys, l1_pt_entry) ==
    IF ~phys.some THEN [m |-> m, ok |-> FALSE]
    ELSE IF ~HasFlag(l1_pt_entry, MMUFLAG_VALID) THEN [m |-> m, ok |-> TRUE]
    ELSE free_page_move(m, virt, phys, l1_pt_entry)

free_page(m, virt) ==
    free_page_entry(m, virt, virt_to_phys(m, virt), read_u32(m, l1_pt, VPN1(virt)))

\* ensure_page, the new level-0 table: a is what allocate_page returned.
ensure_page_table(a, address) ==
    IF a.m.panic # "none" THEN [m |-> a.m, entry |-> 0]
    ELSE [m |-> write_u32(a.m, l1_pt, VPN1(address), TablePte(a.phys)),
          entry |-> TablePte(a.phys)]

\* ensure_page, the new data page.
ensure_page_leaf(a, l0_pt, address) ==
    IF a.m.panic # "none" THEN [m |-> a.m, entry |-> 0]
    ELSE [m |-> write_u32(a.m, l0_pt, VPN0(address), LeafPte(a.phys)),
          entry |-> LeafPte(a.phys)]

\* ensure_page, the two assertions on the level-0 entry.
ensure_page_assert(s) ==
    IF s.m.panic # "none" THEN s.m
    ELSE IF PtePpn(s.entry) \notin s.m.allocated_pages
              \/ PtePpn(s.entry) \in s.m.free_pages
         THEN Panic(s.m, "assert")
         ELSE s.m

ensure_page_l0(m, l0_pt, address, l0_pt_entry) ==
    ensure_page_assert(
        IF HasFlag(l0_pt_entry, MMUFLAG_VALID) THEN [m |-> m, entry |-> l0_pt_entry]
        ELSE ensure_page_leaf(allocate_page(m), l0_pt, address))

ensure_page_l1(s, address) ==
    IF s.m.panic # "none" THEN s.m
    ELSE ensure_page_l0(s.m, PtePpn(s.entry), address,
                        read_u32(s.m, PtePpn(s.entry), VPN0(address)))

ensure_page_root(m, address, l1_pt_entry) ==
    ensure_page_l1(
        IF HasFlag(l1_pt_entry, MMUFLAG_VALID) THEN [m |-> m, entry |-> l1_pt_entry]
        ELSE ensure_page_table(allocate_page(m), address),
        address)

ensure_page(m, address) ==
    ensure_page_root(m, address, read_u32(m, l1_pt, VPN1(address)))

\* The pages `(start..start + size).step_by(4096)` visits, in order.
Pages(start, size) == [k \in 1 .. ((size + 4095) \div 4096) |-> start + 4096 * (k - 1)]

\* The pages of ps that are mapped, by position.
Mapped(m, ps) == {k \in DOMAIN ps : virt_to_phys(m, ps[k]).some}

\* The 'outer loop of allocate_virt_region: the first start from which no
\* visited page is mapped.
RECURSIVE FindStart(_, _, _)
FindStart(m, start, size) ==
    IF Mapped(m, Pages(start, size)) = {} THEN start
    ELSE FindStart(m, Pages(start, size)[First(Mapped(m, Pages(start, size)))] + 4096,
                   size)

RECURSIVE EnsureAll(_, _, _)
EnsureAll(m, ps, k) ==
    IF k > Len(ps) \/ m.panic # "none" THEN m
    ELSE EnsureAll(ensure_page(m, ps[k]), ps, k + 1)

allocate_virt_region_end(m, start, size) ==
    IF m.panic # "none" THEN [m |-> m, some |-> FALSE, start |-> 0]
    ELSE [m |-> [m EXCEPT !.allocation_previous = start + size + 4096],
          some |-> TRUE, start |-> start]

allocate_virt_region_at(m, start, size) ==
    allocate_virt_region_end(EnsureAll(m, Pages(start, size), 1), start, size)

allocate_virt_region(m, size) ==
    allocate_virt_region_at(m, FindStart(m, m.allocation_previous, size), size)

NoResult == <<>>

map_memory_result(region, size) ==
    [m |-> region.m,
     result |-> IF region.m.panic # "none" THEN NoResult
                ELSE IF region.some THEN <<RES_MemoryRange, region.start, size>>
                ELSE <<RES_Error, ERR_OutOfMemory, 0>>]

\* map_memory with phys = 0 and virt = 0.
map_memory(m, size) == map_memory_result(allocate_virt_region(m, size), size)

increase_heap_result(m, heap_address, bytes) ==
    IF m.panic # "none" THEN [m |-> m, result |-> NoResult]
    ELSE [m |-> [m EXCEPT !.heap_size = @ + bytes],
          result |-> <<RES_MemoryRange, heap_address, bytes>>]

\* Memory::syscall, IncreaseHeap arm, bytes >= 0.
increase_heap(m, bytes) ==
    increase_heap_result(
        IF bytes > 0 THEN EnsureAll(m, Pages(HEAP_START + m.heap_size, bytes), 1)
        ELSE m,
        HEAP_START + m.heap_size, bytes)

\* `free_page(offset).unwrap()`
free_page_unwrap(r) ==
    IF r.ok \/ r.m.panic # "none" THEN r.m ELSE Panic(r.m, "unwrap")

RECURSIVE FreeAll(_, _, _)
FreeAll(m, ps, k) ==
    IF k > Len(ps) \/ m.panic # "none" THEN m
    ELSE FreeAll(free_page_unwrap(free_page(m, ps[k])), ps, k + 1)

OkResult(m) ==
    [m |-> m, result |-> IF m.panic # "none" THEN NoResult ELSE <<RES_Ok, 0, 0>>]

\* Memory::syscall, UnmapMemory arm.
unmap_memory(m, address, size) == OkResult(FreeAll(m, Pages(address, size), 1))

\* remove_memory_flags without the second assertion.
remove_memory_flags_l0_unchecked(m, virt, new_flags, l1_pt_entry, l0_pt_entry) ==
    IF new_flags % 2 = 1 \/ new_flags \div 16 # 0 THEN Panic(m, "assert")
    ELSE IF ~HasFlag(l1_pt_entry, MMUFLAG_VALID) THEN m
    ELSE IF ~HasFlag(l0_pt_entry, MMUFLAG_VALID) THEN m
    ELSE write_u32(m, PtePpn(l1_pt_entry), VPN0(virt),
                   (l0_pt_entry - ((l0_pt_entry \div 2) % 8) * 2) + new_flags)

\* Memory::remove_memory_flags, given the two page-table entries it reads.
remove_memory_flags_l0(m, virt, new_flags, l1_pt_entry, l0_pt_entry) ==
    IF new_flags % 2 = 1 \/ new_flags \div 16 # 0 THEN Panic(m, "assert")
    ELSE IF ~HasFlag(l1_pt_entry, MMUFLAG_VALID) THEN m
    ELSE IF ~HasFlag(l0_pt_entry, MMUFLAG_VALID) THEN m
    ELSE IF \E f \in {MMUFLAG_READABLE, MMUFLAG_WRITABLE, MMUFLAG_EXECUTABLE} :
               HasFlag(new_flags, f) /\ ~HasFlag(l0_pt_entry, f)
         THEN Panic(m, "assert")
         ELSE write_u32(m, PtePpn(l1_pt_entry), VPN0(virt),
                        (l0_pt_entry - ((l0_pt_entry \div 2) % 8) * 2) + new_flags)

remove_memory_flags_l1(m, virt, new_flags, l1_pt_entry) ==
    remove_memory_flags_l0(m, virt, new_flags, l1_pt_entry,
                           read_u32(m, PtePpn(l1_pt_entry), VPN0(virt)))

remove_memory_flags(m, virt, new_flags) ==
    remove_memory_flags_l1(m, virt, new_flags, read_u32(m, l1_pt, VPN1(virt)))

RECURSIVE RemoveAll(_, _, _, _)
RemoveAll(m, ps, k, value) ==
    IF k > Len(ps) \/ m.panic # "none" THEN m
    ELSE RemoveAll(remove_memory_flags(m, ps[k], value), ps, k + 1, value)

\* Memory::syscall, UpdateMemoryFlags arm.  The source visits every byte
\* address of the range; remove_memory_flags acts on the page of the address
\* and repeating it on a page changes nothing more, so pages are visited.
update_memory_flags(m, address, range, value) ==
    OkResult(RemoveAll(m, Pages(address, range), 1, value))

SetFlag(pte, flag) == IF HasFlag(pte, flag) THEN pte ELSE pte + flag

Fault(m) == [ok |-> FALSE, ppn |-> 0, offset |-> 0, m |-> m]

\* traverse_page at a leaf, after the update of the A and D bits (m).
traverse_page_leaf(m, v_address, level, pte, access_type) ==
    IF (access_type = "Execute" /\ ~HasFlag(pte, MMUFLAG_EXECUTABLE))
         \/ (access_type = "Read" /\ ~HasFlag(pte, MMUFLAG_READABLE))
         \/ (access_type = "Write" /\ ~HasFlag(pte, MMUFLAG_WRITABLE))
    THEN Fault(m)
    ELSE IF level = 1
         THEN IF (pte \div 1024) % 1024 # 0 THEN Fault(m)
              ELSE [ok |-> TRUE,
                    ppn |-> ((pte \div 1048576) % 4096) * 1024 + VPN0(v_address),
                    offset |-> v_address % 4096, m |-> m]
         ELSE [ok |-> TRUE, ppn |-> (pte \div 1024) % 4194304,
               offset |-> v_address % 4096, m |-> m]

\* Mmu::traverse_page in SV32: level 1 reads the root table, level 0 the
\* table the root entry names.
RECURSIVE traverse_page(_, _, _, _, _)

\* traverse_page writing the D bit back on every access type.
traverse_page_pte_dirty(m, v_address, level, parent_ppn, access_type, vpn, pte) ==
    IF ~HasFlag(pte, MMUFLAG_VALID)
         \/ (~HasFlag(pte, MMUFLAG_READABLE) /\ HasFlag(pte, MMUFLAG_WRITABLE))
    THEN Fault(m)
    ELSE IF ~HasFlag(pte, MMUFLAG_READABLE) /\ ~HasFlag(pte, MMUFLAG_EXECUTABLE)
         THEN IF level = 0 THEN Fault(m)
              ELSE traverse_page(m, v_address, level - 1, (pte \div 1024) % 4194304,
                                 access_type)
         ELSE traverse_page_leaf(
                  IF ~HasFlag(pte, MMUFLAG_ACCESSED)
                       \/ (access_type = "Write" /\ ~HasFlag(pte, MMUFLAG_DIRTY))
                  THEN write_u32(m, parent_ppn, vpn,
                           SetFlag(SetFlag(pte, MMUFLAG_ACCESSED), MMUFLAG_DIRTY))
                  ELSE m,
                  v_address, level, pte, access_type)

traverse_page_pte(m, v_address, level, parent_ppn, access_type, vpn, pte) ==
    IF ~HasFlag(pte, MMUFLAG_VALID)
         \/ (~HasFlag(pte, MMUFLAG_READABLE) /\ HasFlag(pte, MMUFLAG_WRITABLE))
    THEN Fault(m)
    ELSE IF ~HasFlag(pte, MMUFLAG_READABLE) /\ ~HasFlag(pte, MMUFLAG_EXECUTABLE)
         THEN IF level = 0 THEN Fault(m)
              ELSE traverse_page(m, v_address, level - 1, (pte \div 1024) % 4194304,
                                 access_type)
         ELSE traverse_page_leaf(
                  IF ~HasFlag(pte, MMUFLAG_ACCESSED)
                       \/ (access_type = "Write" /\ ~HasFlag(pte, MMUFLAG_DIRTY))
                  THEN write_u32(m, parent_ppn, vpn,
                           IF access_type = "Write"
                           THEN SetFlag(SetFlag(pte, MMUFLAG_ACCESSED), MMUFLAG_DIRTY)
                           ELSE SetFlag(pte, MMUFLAG_ACCESSED))
                  ELSE m,
                  v_address, level, pte, access_type)

traverse_page_at(m, v_address, level, parent_ppn, access_type, vpn) ==
    traverse_page_pte(m, v_address, level, parent_ppn, access_type, vpn,
                      read_u32(m, parent_ppn, vpn))

traverse_page(m, v_address, level, parent_ppn, access_type) ==
    traverse_page_at(m, v_address, level, parent_ppn, access_type,
                     IF level = 1 THEN VPN1(v_address) ELSE VPN0(v_address))

store_word_at(t, value) ==
    IF t.ok THEN write_u32(t.m, t.ppn, t.offset \div 4, value) ELSE t.m

\* Mmu::store_word of an aligned word: translate for Write, then store.
store_word(m, v_address, value) ==
    store_word_at(traverse_page(m, v_address, 1, l1_pt, "Write"), value)

\* Sizes the guest passes to MapMemory, bytes it adds to the heap, flag sets
\* it passes to UpdateMemoryFlags.
MapSizes == {100, 4096, 8192}
HeapDeltas == {0, 4096}
FlagSets == {0, MMUFLAG_READABLE}
FlagRanges == {8192}

\* A data word that reads as a leaf PTE naming the last page of the pool.
StalePte == LeafPte(MEMORY_BASE_PPN + PoolPages - 1)
GuestWords == {StalePte}

\* Byte offsets inside a page the guest stores to.
GuestOffsets == {0, 4}

Mem ==
    [data |-> data, allocated_pages |-> allocated_pages, free_pages |-> free_pages,
     heap_size |-> heap_size, allocation_previous |-> allocation_previous,
     panic |-> panic]

SetMem(m) ==
    /\ data' = m.data
    /\ allocated_pages' = m.allocated_pages
    /\ free_pages' = m.free_pages
    /\ heap_size' = m.heap_size
    /\ allocation_previous' = m.allocation_previous
    /\ panic' = m.panic

\* A panic inside a call poisons the memory lock: nothing runs after it.
CanCall == panic = "none" /\ sys.n < MaxOps

Did(name, arg, result) ==
    sys' = [name |-> name, arg |-> arg, result |-> result, n |-> sys.n + 1]

\* ECALL MapMemory(0, 0, size, flags).
MapMemory(size) ==
    /\ CanCall
    /\ \A k \in DOMAIN Pages(FindStart(Mem, allocation_previous, size), size) :
          Pages(FindStart(Mem, allocation_previous, size), size)[k]
              < ALLOC_START + 4096 * (MaxSlot + 1)
    /\ LET r == map_memory(Mem, size) IN
        SetMem(r.m) /\ Did("MapMemory", size, r.result)
    /\ UNCHANGED othersM

\* ECALL IncreaseHeap(bytes, flags).
IncreaseHeap(bytes) ==
    /\ CanCall
    /\ heap_size + bytes <= 4096 * (MaxSlot + 1)
    /\ LET r == increase_heap(Mem, bytes) IN
        SetMem(r.m) /\ Did("IncreaseHeap", bytes, r.result)
    /\ UNCHANGED othersM

\* ECALL UnmapMemory(address, 4096).
UnmapMemory(address) ==
    /\ CanCall
    /\ LET r == unmap_memory(Mem, address, 4096) IN
        SetMem(r.m) /\ Did("UnmapMemory", 0, r.result)
    /\ UNCHANGED othersM

\* ECALL UpdateMemoryFlags(address, range, value).
UpdateMemoryFlags(address, range, value) ==
    /\ CanCall
    /\ LET r == update_memory_flags(Mem, address, range, value) IN
        SetMem(r.m)
        /\ Did("UpdateMemoryFlags", <<address, range, value>>, r.result)
    /\ UNCHANGED othersM

\* A call of ensure_page by the loader.
EnsurePage(address) ==
    /\ CanCall
    /\ SetMem(ensure_page(Mem, address))
    /\ Did("ensure_page", 0, NoResult)
    /\ UNCHANGED othersM

\* A guest SW.  A store that faults leaves all but the A and D bits alone
\* (the trap ends the thread of the hart).
GuestStore(v_address, value) ==
    /\ CanCall
    /\ SetMem(store_word(Mem, v_address, value))
    /\ IF traverse_page(Mem, v_address, 1, l1_pt, "Write").ok
       THEN Did("store", 0, NoResult)
       ELSE UNCHANGED sys
    /\ UNCHANGED othersM

\* The state after Memory::new.
InitM ==
    /\ data = [p \in Pool |-> [w \in TrackedWords |-> 0]]
    /\ free_pages = Pool \ {l1_pt}
    /\ allocated_pages = {l1_pt}
    /\ heap_size = 0
    /\ allocation_previous = ALLOC_START
    /\ panic = "none"
    /\ sys = [name |-> "none", arg |-> 0, result |-> NoResult, n |-> 0]

NextM ==
    \/ \E size \in MapSizes : MapMemory(size)
    \/ \E bytes \in HeapDeltas : IncreaseHeap(bytes)
    \/ \E address \in VPages : UnmapMemory(address)
    \/ \E address \in WindowPages(ALLOC_START), range \in FlagRanges, value \in FlagSets :
          UpdateMemoryFlags(address, range, value)
    \/ \E address \in VPages : EnsurePage(address)
    \/ \E page \in VPages, offset \in GuestOffsets, value \in GuestWords :
          GuestStore(page + offset, value)

\* ------------------------------------------------------------------------
\* SpecBus: the connection table and the SendMessage bridge.
\*
\* The guest lends a buffer of two words at the start of a page of the
\* MapMemory window.  The string a lookup carries in the buffer is held as
\* one word per name (NameWord); any other word is a name the name service
\* does not know.

\* Connection ids the table can hold.
MaxConn == 3

\* Calls of one run (memory calls stop at MaxOps).
MaxBusOps == 6

RES_ConnectionId == 7
RES_Scalar2 == 15
ERR_ServerNotFound == 9

\* The value Memory::connection_index starts from.
CONNECTION_INDEX_START == 1

ConnIds == 1 .. MaxConn

\* The services get_service knows.
ConnectNames == {"ticktimer", "log", "name"}

\* The services Name::lend_mut knows.
LookupNames == {"panic-to-screen!", "_DNS Resolver Middleware_"}

NameWord(name) == IF name = "panic-to-screen!" THEN 1001 ELSE 1002

name_from_word(w) ==
    IF w = 1001 THEN "panic-to-screen!"
    ELSE IF w = 1002 THEN "_DNS Resolver Middleware_"
    ELSE "<invalid>"

BusWords == {NameWord(n) : n \in LookupNames}

Kinds == 1 .. 5

\* The buffers a guest lends: the first two words of a page of the window.
BusBufs == WindowPages(ALLOC_START)

NoSpawn == [id |-> 0, name |-> "none"]

Reply(out, result, region, spawn) ==
    [out |-> out, result |-> result, region |-> region, spawn |-> spawn]

\* Name::lend_mut with opcode TryConnect or BlockingConnect.
name_lend_mut(region, known, next_id) ==
    IF name_from_word(region[1]) \notin LookupNames
    THEN Reply("exit", NoResult, region, NoSpawn)
    ELSE IF known[name_from_word(region[1])] # 0
    THEN Reply("inline", <<RES_MemoryReturned, 0, 0>>,
               <<0, known[name_from_word(region[1])]>>, NoSpawn)
    ELSE Reply("wait", NoResult, region,
               [id |-> next_id, name |-> name_from_word(region[1])])

\* The method of the service that a message of this kind reaches, with the
\* opcode the service handles; the Service trait's default methods panic.
service_call(service, kind, region, known, next_id) ==
    IF service = "name" /\ kind = 1 THEN name_lend_mut(region, known, next_id)
    ELSE IF service = "_DNS Resolver Middleware_" /\ kind = 1
    THEN Reply("inline", <<RES_MemoryReturned, 0, 0>>, <<1, 1>>, NoSpawn)
    ELSE IF service = "panic-to-screen!" /\ kind \in {1, 2}
    THEN Reply("inline", <<RES_MemoryReturned, 0, 0>>, region, NoSpawn)
    ELSE IF service = "log" /\ kind = 2
    THEN Reply("inline", <<RES_MemoryReturned, 0, 0>>, region, NoSpawn)
    ELSE IF service \in {"log", "ticktimer"} /\ kind = 4
    THEN Reply("inline", <<RES_Ok, 0, 0>>, region, NoSpawn)
    ELSE IF service = "ticktimer" /\ kind = 5
    THEN Reply("inline", <<RES_Scalar2, 0, 0>>, region, NoSpawn)
    ELSE Reply("panic", NoResult, region, NoSpawn)

\* `memory.read_u8(memory.virt_to_phys(args[0] + offset).expect(..))` over
\* the buffer.
read_region(m, phys) ==
    <<read_u32(m, phys.ppn, phys.offset \div 4),
      read_u32(m, phys.ppn, phys.offset \div 4 + 1)>>

\* `memory.write_u8(args[0] as u64 + offset as u64, value)` over the buffer.
write_region(m, address, region) ==
    write_u32(write_u32(m, address \div 4096, (address % 4096) \div 4, region[1]),
              (address + 4) \div 4096, ((address + 4) % 4096) \div 4, region[2])

\* `connections.remove(&connection_id)`
connections_remove(conns, connection_id) ==
    [conns EXCEPT ![connection_id] = "none"]

\* `connections.insert(connection_id, service)`
connections_insert(conns, connection_id, service) ==
    [conns EXCEPT ![connection_id] = service]

\* send_message leaves the table without the service it called.
send_message_insert_skip(conns, connection_id, service) == conns

\* `memory.connections.insert(connection_id, service)` at the end of
\* send_message.
send_message_insert(conns, connection_id, service) ==
    connections_insert(conns, connection_id, service)

\* The state send_message leaves: memory, table, counter, spawned thread.
Sent(m, conns, next_id, spawn, result) ==
    [m |-> m, conns |-> conns, next_id |-> next_id, spawn |-> spawn,
     result |-> result]

send_message_reply(m, conns, next_id, connection_id, kind, buf, service, r) ==
    IF r.out = "panic" THEN
        Sent(Panic(m, "service"), connections_remove(conns, connection_id),
             next_id, NoSpawn, NoResult)
    ELSE IF r.out = "exit" THEN
        Sent(Panic(m, "exit"), connections_remove(conns, connection_id),
             next_id, NoSpawn, NoResult)
    ELSE IF r.out = "wait" THEN
        Sent(m, send_message_insert(connections_remove(conns, connection_id),
                                    connection_id, service),
             next_id + 1, r.spawn, NoResult)
    ELSE
        Sent(IF kind = 1 THEN write_region(m, buf, r.region) ELSE m,
             send_message_insert(connections_remove(conns, connection_id),
                                 connection_id, service),
             next_id, NoSpawn, r.result)

send_message_service(m, conns, known, next_id, connection_id, kind, buf, region) ==
    IF connection_id \notin DOMAIN conns \/ conns[connection_id] = "none"
    THEN Sent(m, conns, next_id, NoSpawn, <<RES_Error, ERR_ServerNotFound, 0>>)
    ELSE send_message_reply(m, conns, next_id, connection_id, kind, buf,
                            conns[connection_id],
                            service_call(conns[connection_id], kind, region,
                                         known, next_id))

send_message_region(m, conns, known, next_id, connection_id, kind, buf, phys) ==
    IF kind \in 1 .. 3 /\ ~phys.some
    THEN Sent(Panic(m, "invalid memory address"), conns, next_id, NoSpawn, NoResult)
    ELSE send_message_service(m, conns, known, next_id, connection_id, kind, buf,
                              IF kind \in 1 .. 3 THEN read_region(m, phys)
                              ELSE <<0, 0>>)

send_message(m, conns, known, next_id, connection_id, kind, buf) ==
    send_message_region(m, conns, known, next_id, connection_id, kind, buf,
                        virt_to_phys(m, buf))

CanBus == panic = "none" /\ sys.n < MaxBusOps

\* `connections.len()`
Len_connections == Cardinality({c \in ConnIds : connections[c] # "none"})

NoNames == [n \in LookupNames |-> 0]

\* ECALL Connect(id) or TryConnect(id) for a service get_service knows.
Connect(name) ==
    /\ CanBus
    /\ Len_connections + 1 \in ConnIds
    /\ connections' = connections_insert(connections, Len_connections + 1, name)
    /\ name_index' = [name_index EXCEPT ![Len_connections + 1] = NoNames]
    /\ issued' = issued \cup {Len_connections + 1}
    /\ bcall' = [cid |-> Len_connections + 1, kind |-> 0, buf |-> 0]
    /\ Did("Connect", 0, <<RES_ConnectionId, Len_connections + 1, 0>>)
    /\ UNCHANGED <<connection_index, spawned>>
    /\ UNCHANGED <<data, allocated_pages, free_pages, heap_size,
                   allocation_previous, panic>>
    /\ UNCHANGED othersB

SetSent(s, connection_id, kind, buf) ==
    /\ SetMem(s.m)
    /\ connections' = s.conns
    /\ connection_index' = s.next_id
    /\ spawned' = IF s.spawn.id = 0 THEN spawned
                  ELSE spawned \cup {[id |-> s.spawn.id, name |-> s.spawn.name,
                                      owner |-> connection_id]}
    /\ issued' = IF s.spawn.id = 0 THEN issued ELSE issued \cup {s.spawn.id}
    /\ bcall' = [cid |-> connection_id, kind |-> kind, buf |-> buf]
    /\ Did("SendMessage", kind, s.result)
    /\ UNCHANGED name_index

\* ECALL SendMessage(connection_id, kind, opcode, [buf, 8, 0, 8]).
SendMessage(connection_id, kind, buf) ==
    /\ CanBus
    /\ connection_index \in ConnIds
    /\ SetSent(send_message(Mem, connections,
                            IF connection_id \in ConnIds
                            THEN name_index[connection_id] ELSE NoNames,
                            connection_index, connection_id, kind, buf),
               connection_id, kind, buf)
    /\ UNCHANGED othersB

\* The thread Name::lend_mut spawned: it inserts the connection, records
\* the name and sends the response.
NameInsert(t) ==
    /\ panic = "none"
    /\ t \in spawned
    /\ connections' = connections_insert(connections, t.id, t.name)
    /\ name_index' = IF t.id = t.owner THEN name_index
                     ELSE [name_index EXCEPT ![t.owner][t.name] = t.id]
    /\ spawned' = spawned \ {t}
    /\ UNCHANGED <<connection_index, issued, bcall>>
    /\ UNCHANGED varsM
    /\ UNCHANGED othersB

InitB ==
    /\ connections = [c \in ConnIds |-> "none"]
    /\ connection_index = CONNECTION_INDEX_START
    /\ name_index = [c \in ConnIds |-> NoNames]
    /\ spawned = {}
    /\ issued = {}
    /\ bcall = [cid |-> 0, kind |-> 0, buf |-> 0]

NextB ==
    \/ MapMemory(4096)
    \/ \E page \in BusBufs, value \in BusWords : GuestStore(page, value)
    \/ \E name \in ConnectNames : Connect(name)
    \/ \E connection_id \in ConnIds \cup {MaxConn + 1}, kind \in Kinds, buf \in BusBufs :
          SendMessage(connection_id, kind, buf)
    \/ \E t \in spawned : NameInsert(t)

\* ------------------------------------------------------------------------
\* SpecTrap: one hart's privilege, status and trap CSRs under ticks that
\* execute ADDI, CSRRW, ECALL, MRET or SRET, and under the delivery of the
\* trap a tick returned.  CSR words are held as naturals below 2^31; a cause
\* word is held as the i32 with the same bits.

\* Ticks of one run.
MaxCycles == 3

MIP_MEIP == 2048
MIP_MTIP == 128
MIP_MSIP == 8
MIP_SEIP == 512
MIP_STIP == 32
MIP_SSIP == 2

Pow2(n) == 2 ^ n

Bit(v, n) == (v \div Pow2(n)) % 2

\* v with bit n replaced by b.
WithBit(v, n, b) == v - Bit(v, n) * Pow2(n) + b * Pow2(n)

RECURSIVE AndBits(_, _)
\* v & mask, for the mask whose set bits are S.
AndBits(v, S) ==
    IF S = {} THEN 0
    ELSE (Bit(v, CHOOSE n \in S : TRUE) * Pow2(CHOOSE n \in S : TRUE))
           + AndBits(v, S \ {CHOOSE n \in S : TRUE})

\* v & !mask
ClearBits(v, S) == v - AndBits(v, S)

\* The bits of 0x800de162 below bit 31; bit 31 is the sign of the i32.
SSTATUS_BITS == {1, 5, 6, 8, 13, 14, 15, 16, 18, 19}

\* Bit 31 of a word, in place.
Sign(v) == IF Bit31(v) THEN MinI32 ELSE 0

\* The bits of 0x222.
SIE_BITS == {1, 5, 9}

\* The bits of 0x666.
MIDELEG_BITS == {1, 2, 5, 6, 9, 10}

get_privilege_encoding(mode) ==
    IF mode = "User" THEN 0 ELSE IF mode = "Supervisor" THEN 1 ELSE 3

decode_privilege_mode(encoding) ==
    IF encoding = 0 THEN "User"
    ELSE IF encoding = 1 THEN "Supervisor"
    ELSE IF encoding = 3 THEN "Machine"
    ELSE "panic"

\* The lowest privilege that may access the CSR: bits 9:8 of its address.
CsrPrivilege ==
    [mstatus |-> 3, mie |-> 3, mip |-> 3, mideleg |-> 3, medeleg |-> 3,
     mtvec |-> 3, mepc |-> 3, mcause |-> 3, mtval |-> 3,
     sstatus |-> 1, sideleg |-> 1, sedeleg |-> 1, stvec |-> 1, sepc |-> 1,
     scause |-> 1, stval |-> 1, sie |-> 1, sip |-> 1, satp |-> 1,
     ustatus |-> 0, uie |-> 0]

\* The gate left open: every CSR is accessible at every privilege.
has_csr_access_privilege_any(c, address) == TRUE

has_csr_access_privilege(c, address) ==
    CsrPrivilege[address] <= get_privilege_encoding(c.privilege_mode)

read_csr_raw(c, address) ==
    IF address = "sstatus"
    THEN AndBits(c.csr.mstatus, SSTATUS_BITS) + Sign(c.csr.mstatus)
    ELSE IF address = "sie" THEN AndBits(c.csr.mie, SIE_BITS)
    ELSE IF address = "sip" THEN AndBits(c.csr.mip, SIE_BITS)
    ELSE c.csr[address]

\* Mmu::update_mstatus with the word read_csr_raw(CSR_MSTATUS_ADDRESS) returns.
update_mstatus(c) == [c EXCEPT !.mmu_mstatus = c.csr.mstatus]

\* write_csr_raw with the supervisor views written through unmasked.
write_csr_raw_unmasked(c, address, value) ==
    IF address = "sstatus" \/ address = "mstatus"
    THEN [c EXCEPT !.csr.mstatus = value, !.mmu_mstatus = value]
    ELSE IF address = "sie" THEN [c EXCEPT !.csr.mie = value]
    ELSE IF address = "sip" THEN [c EXCEPT !.csr.mip = value]
    ELSE IF address = "mideleg"
    THEN [c EXCEPT !.csr.mideleg = AndBits(value, MIDELEG_BITS)]
    ELSE [c EXCEPT !.csr[address] = value]

\* Cpu::write_csr_raw; the writes of sstatus and mstatus end with
\* mmu.update_mstatus(read_csr_raw(CSR_MSTATUS_ADDRESS)).
write_csr_raw(c, address, value) ==
    IF address = "sstatus"
    THEN update_mstatus(
             [c EXCEPT !.csr.mstatus = (ClearBits(@, SSTATUS_BITS) - Sign(@))
                                         + AndBits(value, SSTATUS_BITS) + Sign(value)])
    ELSE IF address = "mstatus"
    THEN update_mstatus([c EXCEPT !.csr.mstatus = value])
    ELSE IF address = "sie"
    THEN [c EXCEPT !.csr.mie = ClearBits(@, SIE_BITS) + AndBits(value, SIE_BITS)]
    ELSE IF address = "sip"
    THEN [c EXCEPT !.csr.mip = ClearBits(@, SIE_BITS) + AndBits(value, SIE_BITS)]
    ELSE IF address = "mideleg"
    THEN [c EXCEPT !.csr.mideleg = AndBits(value, MIDELEG_BITS)]
    ELSE [c EXCEPT !.csr[address] = value]

\* The cause word as the i32 with the bits of the u32: bit 31 for interrupts.
get_trap_cause(trap) ==
    IF trap.interrupt THEN trap.code - 2147483647 - 1 ELSE trap.code

\* handle_interrupt passes `value: self.pc`.
Interrupt(code, value) == [interrupt |-> TRUE, code |-> code, value |-> value]

Exception(code, value) == [interrupt |-> FALSE, code |-> code, value |-> value]

NoTrap == [interrupt |-> FALSE, code |-> 0 - 1, value |-> 0]

MachineExternalInterrupt == 11
MachineSoftwareInterrupt == 3
MachineTimerInterrupt == 7
SupervisorExternalInterrupt == 9
SupervisorSoftwareInterrupt == 1
SupervisorTimerInterrupt == 5
IllegalInstruction == 2
EnvironmentCallFromUMode == 8
EnvironmentCallFromSMode == 9
EnvironmentCallFromMMode == 11
InstructionPageFault == 12
LoadPageFault == 13
StorePageFault == 15
PauseEmulation == 16

\* 0xff803000 as an i32: the fetch address that ends a thread.
EXIT_THREAD_ADDRESS == 0 - 8376320

\* The privilege a trap of this cause is taken to.
new_privilege_mode(c, trap) ==
    IF Bit(IF trap.interrupt THEN c.csr.mideleg ELSE c.csr.medeleg, trap.code) = 0
    THEN "Machine"
    ELSE IF Bit(IF trap.interrupt THEN c.csr.sideleg ELSE c.csr.sedeleg, trap.code) = 0
    THEN "Supervisor"
    ELSE "User"

current_status(c) ==
    IF c.privilege_mode = "Machine" THEN read_csr_raw(c, "mstatus")
    ELSE IF c.privilege_mode = "Supervisor" THEN read_csr_raw(c, "sstatus")
    ELSE read_csr_raw(c, "ustatus")

\* The interrupt-enable CSR of the privilege the trap goes to.
trap_ie(c, mode) ==
    IF mode = "Machine" THEN read_csr_raw(c, "mie")
    ELSE IF mode = "Supervisor" THEN read_csr_raw(c, "sie")
    ELSE read_csr_raw(c, "uie")

\* The xIE bit of the current privilege in its status word.
current_xie(c) ==
    IF c.privilege_mode = "Machine" THEN Bit(current_status(c), 3)
    ELSE IF c.privilege_mode = "Supervisor" THEN Bit(current_status(c), 1)
    ELSE Bit(current_status(c), 0)

\* handle_trap without the xIE check at equal privilege.
interrupt_accepted_any_xie(c, trap, mode) ==
    /\ get_privilege_encoding(mode) >= get_privilege_encoding(c.privilege_mode)
    /\ Bit(trap_ie(c, mode), trap.code) = 1

\* The checks of handle_trap that make it return false for an interrupt.
interrupt_accepted(c, trap, mode) ==
    /\ get_privilege_encoding(mode) >= get_privilege_encoding(c.privilege_mode)
    /\ get_privilege_encoding(mode) = get_privilege_encoding(c.privilege_mode)
          => current_xie(c) = 1
    /\ Bit(trap_ie(c, mode), trap.code) = 1

\* pc = xtvec, or the vectored address when the low two bits are not 0.
trap_pc(tvec, code) ==
    IF tvec % 4 # 0 THEN (tvec - (tvec % 4)) + 4 * code ELSE tvec

\* handle_trap keeps the previous privilege of a trap taken to Machine.
trap_to_machine_keep_mpp(c, current_privilege_encoding) ==
    write_csr_raw(c, "mstatus",
        WithBit(WithBit(c.csr.mstatus, 7, Bit(c.csr.mstatus, 3)), 3, 0))

\* new_status = (status & !0x1888) | (mie << 7) | (current << 11)
trap_to_machine(c, current_privilege_encoding) ==
    write_csr_raw(c, "mstatus",
        ClearBits(c.csr.mstatus, {3, 7, 11, 12})
          + Bit(c.csr.mstatus, 3) * Pow2(7)
          + current_privilege_encoding * Pow2(11))

\* new_status = (status & !0x122) | (sie << 5) | ((current & 1) << 8)
trap_to_supervisor(c, current_privilege_encoding) ==
    write_csr_raw(c, "sstatus",
        ClearBits(read_csr_raw(c, "sstatus"), {1, 5, 8})
          + Bit(read_csr_raw(c, "sstatus"), 1) * Pow2(5)
          + (current_privilege_encoding % 2) * Pow2(8))

Taken(c) == [taken |-> TRUE, c |-> c]

NotTaken(c) == [taken |-> FALSE, c |-> c]

\* The part of handle_trap after the checks, for a trap taken to Machine.
take_machine(c, trap, instruction_address, current_privilege_encoding) ==
    trap_to_machine(
        [c EXCEPT !.privilege_mode = "Machine", !.mmu_privilege_mode = "Machine",
                  !.csr.mepc = instruction_address,
                  !.csr.mcause = get_trap_cause(trap),
                  !.csr.mtval = trap.value,
                  !.pc = trap_pc(c.csr.mtvec, trap.code)],
        current_privilege_encoding)

\* The same for a trap taken to Supervisor.
take_supervisor(c, trap, instruction_address, current_privilege_encoding) ==
    trap_to_supervisor(
        [c EXCEPT !.privilege_mode = "Supervisor", !.mmu_privilege_mode = "Supervisor",
                  !.csr.sepc = instruction_address,
                  !.csr.scause = get_trap_cause(trap),
                  !.csr.stval = trap.value,
                  !.pc = trap_pc(c.csr.stvec, trap.code)],
        current_privilege_encoding)

\* A trap taken to User ends in panic!("Not implemented yet").
take_user(c) == [c EXCEPT !.panic = "Not implemented yet"]

handle_trap_to(c, trap, instruction_address, mode) ==
    IF trap.interrupt /\ ~interrupt_accepted(c, trap, mode) THEN NotTaken(c)
    ELSE IF mode = "Machine"
    THEN Taken(take_machine(c, trap, instruction_address,
                            get_privilege_encoding(c.privilege_mode)))
    ELSE IF mode = "Supervisor"
    THEN Taken(take_supervisor(c, trap, instruction_address,
                               get_privilege_encoding(c.privilege_mode)))
    ELSE Taken(take_user(c))

handle_trap(c, trap, instruction_address) ==
    handle_trap_to(c, trap, instruction_address, new_privilege_mode(c, trap))

\* The order in which handle_interrupt offers the interrupts.
InterruptOrder ==
    <<MachineExternalInterrupt, MachineSoftwareInterrupt, MachineTimerInterrupt,
      SupervisorExternalInterrupt, SupervisorSoftwareInterrupt,
      SupervisorTimerInterrupt>>

\* The mip bit of an interrupt is the bit of its cause code.
minterrupt(c) == {code \in 0 .. 11 : Bit(c.csr.mip, code) = 1 /\ Bit(c.csr.mie, code) = 1}

Handled(c, code) == [c |-> c, code |-> code]

\* handle_interrupt leaves the mip bit of the interrupt it took set.
handle_interrupt_taken_keep_mip(r, code) == Handled(r.c, code)

handle_interrupt_taken(r, code) ==
    Handled(IF r.c.panic = "none"
            THEN [write_csr_raw(r.c, "mip", WithBit(r.c.csr.mip, code, 0))
                     EXCEPT !.wfi = FALSE]
            ELSE r.c,
            code)

RECURSIVE handle_interrupt_from(_, _, _)
handle_interrupt_from(c, instruction_address, k) ==
    IF k > Len(InterruptOrder) THEN Handled(c, 0 - 1)
    ELSE IF InterruptOrder[k] \in minterrupt(c)
            /\ handle_trap(c, Interrupt(InterruptOrder[k], c.pc), instruction_address).taken
    THEN handle_interrupt_taken(
             handle_trap(c, Interrupt(InterruptOrder[k], c.pc), instruction_address),
             InterruptOrder[k])
    ELSE handle_interrupt_from(c, instruction_address, k + 1)

handle_interrupt(c, instruction_address) ==
    handle_interrupt_from(c, instruction_address, 1)

\* What tick_operate returns: the hart and the trap of an Err.
Operated(c, trap) == [c |-> c, trap |-> trap]

\* `self.pc = self.pc.wrapping_add(4)` after the fetch.
fetched(c) == [c EXCEPT !.pc = @ + 4]

\* The general registers the model keeps: x0, x1 and a0.
XRegs == {0, 1, 10}

\* cpu.x[f.rd] = cpu.x[f.rs1].wrapping_add(f.imm)
ADDI(c, f_rd, f_rs1, f_imm) ==
    Operated([c EXCEPT !.x[f_rd] = wrapping_add(c.x[f_rs1], f_imm)], NoTrap)

\* update_addressing_mode with the root page number left as it was.
update_addressing_mode_keep_ppn(c, value) ==
    [c EXCEPT !.mmu_addressing_mode = IF value < 0 THEN "SV32" ELSE "None"]

\* Cpu::update_addressing_mode: bit 31 of the word selects SV32, bits 21:0
\* are the root page number.
update_addressing_mode(c, value) ==
    [c EXCEPT !.mmu_addressing_mode = IF value < 0 THEN "SV32" ELSE "None",
              !.mmu_ppn = value % Pow2(22)]

\* Cpu::write_csr once the privilege check has passed.
write_csr_granted(c, address, value) ==
    IF address = "satp"
    THEN update_addressing_mode(write_csr_raw(c, address, value), value)
    ELSE write_csr_raw(c, address, value)

\* read_csr, then x[rd] = data, then write_csr of tmp, the value of x[rs].
CSRRW(c, address, f_rd, tmp) ==
    IF has_csr_access_privilege(c, address)
    THEN Operated(write_csr_granted([c EXCEPT !.x[f_rd] = read_csr_raw(c, address)],
                                    address, tmp),
                  NoTrap)
    ELSE Operated(c, Exception(IllegalInstruction, c.pc - 4))

\* x[rd] = csr; csr = x[rd] | x[rs]
CSRRS(c, address, f_rd, tmp) ==
    IF has_csr_access_privilege(c, address)
    THEN Operated(write_csr_granted([c EXCEPT !.x[f_rd] = read_csr_raw(c, address)],
                                    address, BitOr(read_csr_raw(c, address), tmp)),
                  NoTrap)
    ELSE Operated(c, Exception(IllegalInstruction, c.pc - 4))

\* x[rd] = csr; csr = x[rd] & !x[rs]
CSRRC(c, address, f_rd, tmp) ==
    IF has_csr_access_privilege(c, address)
    THEN Operated(write_csr_granted([c EXCEPT !.x[f_rd] = read_csr_raw(c, address)],
                                    address,
                                    BitAnd(read_csr_raw(c, address), (0 - 1) - tmp)),
                  NoTrap)
    ELSE Operated(c, Exception(IllegalInstruction, c.pc - 4))

\* The immediate forms take the five bits of the rs field as the operand.
CSRRWI(c, address, f_rd, f_rs) == CSRRW(c, address, f_rd, f_rs)
CSRRSI(c, address, f_rd, f_rs) == CSRRS(c, address, f_rd, f_rs)
CSRRCI(c, address, f_rd, f_rs) == CSRRC(c, address, f_rd, f_rs)

\* The operation the decoder selects for a CSR instruction.
csr_operation(name, c, address, f_rd, operand) ==
    CASE name = "CSRRW" -> CSRRW(c, address, f_rd, operand)
      [] name = "CSRRS" -> CSRRS(c, address, f_rd, operand)
      [] name = "CSRRC" -> CSRRC(c, address, f_rd, operand)
      [] name = "CSRRWI" -> CSRRWI(c, address, f_rd, operand)
      [] name = "CSRRSI" -> CSRRSI(c, address, f_rd, operand)
      [] name = "CSRRCI" -> CSRRCI(c, address, f_rd, operand)

WFI(c) == Operated([c EXCEPT !.wfi = TRUE], NoTrap)

\* ECALL when the bridge returns SyscallResult::Defer or ::Continue.
ECALL(c, address, syscall) ==
    IF syscall = "Defer" THEN Operated(c, Exception(PauseEmulation, address))
    ELSE Operated(c, Exception(IF c.privilege_mode = "User" THEN EnvironmentCallFromUMode
                               ELSE IF c.privilege_mode = "Supervisor"
                               THEN EnvironmentCallFromSMode
                               ELSE EnvironmentCallFromMMode,
                               address))

\* pc = x[rs1] + imm, x[rd] = the pc after the fetch.
JALR(c, f_rd, f_rs1, f_imm) ==
    Operated([c EXCEPT !.pc = wrapping_add(c.x[f_rs1], f_imm), !.x[f_rd] = c.pc],
             NoTrap)

\* MRET restores MIE but leaves MPIE clear and MPP as it was.
mret_status_mpie(status) == WithBit(WithBit(status, 3, Bit(status, 7)), 7, 0)

\* new_status = (status & !0x21888) | (mprv << 17) | (mpie << 3) | (1 << 7)
mret_status(status) ==
    ClearBits(status, {3, 7, 11, 12, 17})
      + (IF (status \div Pow2(11)) % 4 = 3 THEN Bit(status, 17) ELSE 0) * Pow2(17)
      + Bit(status, 7) * Pow2(3)
      + Pow2(7)

MRET(c) ==
    IF ~has_csr_access_privilege(c, "mepc")
    THEN Operated(c, Exception(IllegalInstruction, c.pc - 4))
    ELSE IF decode_privilege_mode((c.csr.mstatus \div Pow2(11)) % 4) = "panic"
    THEN Operated([c EXCEPT !.pc = c.csr.mepc, !.panic = "Unknown privilege uncoding"],
                  NoTrap)
    ELSE Operated(
             [write_csr_raw(c, "mstatus", mret_status(c.csr.mstatus))
                 EXCEPT !.pc = c.csr.mepc,
                        !.privilege_mode =
                            decode_privilege_mode((c.csr.mstatus \div Pow2(11)) % 4),
                        !.mmu_privilege_mode =
                            decode_privilege_mode((c.csr.mstatus \div Pow2(11)) % 4)],
             NoTrap)

\* new_status = (status & !0x20122) | (mprv << 17) | (spie << 1) | (1 << 5)
sret_status(status) ==
    ClearBits(status, {1, 5, 8, 17}) + Bit(status, 5) * Pow2(1) + Pow2(5)

SRET(c) ==
    IF ~has_csr_access_privilege(c, "sepc")
    THEN Operated(c, Exception(IllegalInstruction, c.pc - 4))
    ELSE Operated(
             [write_csr_raw(c, "sstatus", sret_status(read_csr_raw(c, "sstatus")))
                 EXCEPT !.pc = c.csr.sepc,
                        !.privilege_mode =
                            decode_privilege_mode(Bit(c.csr.mstatus, 8)),
                        !.mmu_privilege_mode =
                            decode_privilege_mode(Bit(c.csr.mstatus, 8))],
             NoTrap)

\* Cpu::read_register
read_register(c, reg) == IF reg = 0 THEN 0 ELSE c.x[reg]

\* Addresses no page is mapped at: the thread-exit address and the page
\* after it.
UnmappedPcs == {EXIT_THREAD_ADDRESS, EXIT_THREAD_ADDRESS + 4096}

\* Cpu::fetch when the MMU refuses the address: pc advances, the fault
\* carries the address.
fetch_fault(c) ==
    Operated([c EXCEPT !.pc = wrapping_add(c.pc, 4)],
             Exception(InstructionPageFault, c.pc))

\* decode_raw fails inside tick_operate: the let-else arm panics.
decode_panic(c) == Operated([c EXCEPT !.panic = "Unknown instruction"], NoTrap)

\* tick_operate without the wait: the fetched word runs although wfi is set.
tick_operate_no_wait(c, r) ==
    IF c.pc \in UnmappedPcs THEN fetch_fault(c)
    ELSE IF r.c.panic # "none" THEN r
    ELSE Operated([r.c EXCEPT !.x[0] = 0], r.trap)

\* tick_operate for a word that was fetched and decoded; r is what the
\* operation of the instruction makes of the hart after the fetch.  A
\* waiting hart executes nothing.
tick_operate(c, r) ==
    IF c.wfi
    THEN Operated([c EXCEPT !.wfi = (minterrupt(c) = {})], NoTrap)
    ELSE IF c.pc \in UnmappedPcs THEN fetch_fault(c)
    ELSE IF r.c.panic # "none" THEN r
    ELSE Operated([r.c EXCEPT !.x[0] = 0], r.trap)

\* execute_opcode: decode and run one word at the current pc; the decode
\* failure is returned as a trap.
execute_opcode(c, decoded, r) ==
    IF decoded THEN r ELSE Operated(c, Exception(IllegalInstruction, c.pc - 4))

\* Cpu::tick around tick_operate: an Err is returned to the caller, an Ok
\* is followed by handle_interrupt(self.pc).
Ticked_interrupt(r, h) ==
    [c |-> h.c, trap |-> NoTrap, code |-> h.code, executed |-> r.c,
     result |-> "Ok", a0 |-> 0, raised |-> NoTrap]

\* Cpu::tick with every instruction page fault taken for the thread exit.
Ticked_err_any_fault(r) ==
    [c |-> r.c, code |-> 0 - 1, executed |-> r.c, raised |-> r.trap,
     trap |-> IF r.c.panic = "none"
                 /\ r.trap.code \in {PauseEmulation, InstructionPageFault}
              THEN NoTrap ELSE r.trap,
     result |-> IF r.c.panic # "none" THEN "panic"
                ELSE IF r.trap.code = PauseEmulation THEN "PauseEmulation"
                ELSE IF r.trap.code = InstructionPageFault THEN "ExitThread"
                ELSE "CpuTrap",
     a0 |-> IF r.c.panic = "none" /\ r.trap.code = InstructionPageFault
            THEN r.c.x[10] ELSE 0]

\* The TickResult of an Err of tick_operate (or a panic inside it).
Ticked_err(r) ==
    [c |-> r.c, code |-> 0 - 1, executed |-> r.c, raised |-> r.trap,
     trap |-> IF r.c.panic = "none" /\ r.trap.code = PauseEmulation THEN NoTrap
              ELSE IF r.c.panic = "none" /\ r.trap.code = InstructionPageFault
                      /\ r.trap.value = EXIT_THREAD_ADDRESS THEN NoTrap
              ELSE r.trap,
     result |-> IF r.c.panic # "none" THEN "panic"
                ELSE IF r.trap.code = PauseEmulation THEN "PauseEmulation"
                ELSE IF r.trap.code = InstructionPageFault
                        /\ r.trap.value = EXIT_THREAD_ADDRESS THEN "ExitThread"
                ELSE "CpuTrap",
     a0 |-> IF r.c.panic = "none" /\ r.trap.code = InstructionPageFault
                /\ r.trap.value = EXIT_THREAD_ADDRESS
            THEN r.c.x[10] ELSE 0]

\* tick hands handle_interrupt the address of the instruction it executed.
Ticked_hart_repeat(r) ==
    IF r.trap # NoTrap \/ r.c.panic # "none"
    THEN Ticked_err(r)
    ELSE Ticked_interrupt(r, handle_interrupt(r.c, r.c.pc - 4))

Ticked_hart(r) ==
    IF r.trap # NoTrap \/ r.c.panic # "none"
    THEN Ticked_err(r)
    ELSE Ticked_interrupt(r, handle_interrupt(r.c, r.c.pc))

\* mstatus words: MIE; MPP = Supervisor with SIE and SUM; MPP = 2.
MSTATUS_MIE == 8
MSTATUS_MPP_S_SIE_SUM == Pow2(11) + Pow2(1) + Pow2(18)
MSTATUS_MPP_2 == 2 * Pow2(11)

\* medeleg with the three environment-call causes delegated.
MEDELEG_ECALLS ==
    Pow2(EnvironmentCallFromUMode) + Pow2(EnvironmentCallFromSMode)
      + Pow2(EnvironmentCallFromMMode)

\* Trap vectors: direct (0x1000_0000, 0x2000_0000) and vectored.
MTVEC_DIRECT == 268435456
MTVEC_VECTORED == MTVEC_DIRECT + 1
STVEC_DIRECT == 2 * MTVEC_DIRECT
STVEC_VECTORED == STVEC_DIRECT + 1

\* The CSR words the caller of the hart writes before the first tick.
SetupStatus == {0, MSTATUS_MIE, MSTATUS_MPP_S_SIE_SUM, MSTATUS_MPP_2}

SetupInterrupts ==
    {[mie |-> MIP_MTIP, mip |-> MIP_MTIP],
     [mie |-> MIP_SEIP + MIP_SSIP + MIP_STIP, mip |-> MIP_SEIP + MIP_SSIP + MIP_STIP],
     [mie |-> MIP_MEIP + MIP_MSIP + MIP_MTIP + MIP_SEIP,
      mip |-> MIP_MEIP + MIP_MSIP + MIP_MTIP]}

SetupDelegation ==
    {[mideleg |-> 0, sideleg |-> 0],
     [mideleg |-> MIP_SEIP, sideleg |-> 0],
     [mideleg |-> MIP_SEIP, sideleg |-> MIP_SEIP]}

SetupMedeleg == {0, MEDELEG_ECALLS}

SetupVectors ==
    {[mtvec |-> MTVEC_DIRECT, stvec |-> STVEC_DIRECT],
     [mtvec |-> MTVEC_VECTORED, stvec |-> STVEC_VECTORED]}

\* Words the guest writes with CSRRW.  The satp words have an ASID bit
\* (bit 22) set above the page number, with and without the SV32 bit.
CsrValues ==
    [mstatus |-> {MSTATUS_MIE},
     satp |-> {MinI32 + Pow2(22) + MEMORY_BASE_PPN + 1, Pow2(22) + MEMORY_BASE_PPN}]

write_setup(c, status, ints, deleg, medeleg, vectors) ==
    write_csr_raw(write_csr_raw(write_csr_raw(write_csr_raw(write_csr_raw(
    write_csr_raw(write_csr_raw(write_csr_raw(c,
        "mstatus", status), "mie", ints.mie), "mip", ints.mip),
        "mideleg", deleg.mideleg), "sideleg", deleg.sideleg),
        "medeleg", medeleg), "mtvec", vectors.mtvec), "stvec", vectors.stvec)

\* The caller sets the CSRs with write_csr_raw before it starts the hart.
Setup(status, ints, deleg, medeleg, vectors) ==
    /\ hh.op = "none"
    /\ hart' = write_setup(hart, status, ints, deleg, medeleg, vectors)
    /\ hh' = [hh EXCEPT !.op = "setup"]
    /\ UNCHANGED pending
    /\ UNCHANGED othersC

CanTickHart ==
    /\ hart.panic = "none"
    /\ pending = NoTrap
    /\ hh.result = "Ok"
    /\ hh.n < MaxCycles

\* The state one tick leaves, and what the run remembers of it: the pc the
\* tick started at, the hart as tick_operate left it, the interrupt taken.
SetTicked(op, t) ==
    /\ hart' = t.c
    /\ pending' = t.trap
    /\ hh' = [op |-> IF hart.wfi THEN "idle"
                      ELSE IF hart.pc \in UnmappedPcs THEN "fetch" ELSE op,
              n |-> hh.n + 1, code |-> t.code, value |-> 0,
              pc |-> hart.pc, executed |-> t.executed, result |-> t.result,
              a0 |-> t.a0, raised |-> t.raised, address |-> "none", operand |-> 0]

TickADDI(f_rd, f_rs1) ==
    /\ CanTickHart
    /\ SetTicked("ADDI",
                 Ticked_hart(tick_operate(hart, ADDI(fetched(hart), f_rd, f_rs1, 1))))
    /\ UNCHANGED othersC

TickCSRRW(address, value) ==
    /\ CanTickHart
    /\ SetTicked("CSRRW",
                 Ticked_hart(tick_operate(hart, CSRRW(fetched(hart), address, 0, value))))
    /\ UNCHANGED othersC

TickECALL(syscall) ==
    /\ CanTickHart
    /\ SetTicked("ECALL",
                 Ticked_hart(tick_operate(hart, ECALL(fetched(hart), hart.pc, syscall))))
    /\ UNCHANGED othersC

TickMRET ==
    /\ CanTickHart
    /\ SetTicked("MRET", Ticked_hart(tick_operate(hart, MRET(fetched(hart)))))
    /\ UNCHANGED othersC

TickSRET ==
    /\ CanTickHart
    /\ SetTicked("SRET", Ticked_hart(tick_operate(hart, SRET(fetched(hart)))))
    /\ UNCHANGED othersC

\* The caller of tick hands the trap it got to handle_trap, with the pc it
\* read before the tick.
DeliverTrap ==
    /\ hart.panic = "none"
    /\ pending # NoTrap
    /\ hart' = handle_trap(hart, pending, hh.pc).c
    /\ pending' = NoTrap
    /\ hh' = [hh EXCEPT !.op = "handle_trap", !.code = pending.code,
                        !.value = pending.value, !.executed = hart,
                        !.result = "Ok"]
    /\ UNCHANGED othersC

\* Cpu::new
InitHart ==
    [privilege_mode |-> "Machine", mmu_privilege_mode |-> "Machine",
     mmu_mstatus |-> 0, mmu_addressing_mode |-> "None", mmu_ppn |-> 0, pc |-> 0,
     panic |-> "none", wfi |-> FALSE, x |-> [r \in XRegs |-> 0],
     csr |-> [a \in DOMAIN CsrPrivilege \ {"sstatus", "sie", "sip"} |-> 0]]

InitC ==
    /\ hart = InitHart
    /\ pending = NoTrap
    /\ hh = [op |-> "none", n |-> 0, code |-> 0 - 1, value |-> 0, pc |-> 0,
             executed |-> InitHart, result |-> "Ok", a0 |-> 0, raised |-> NoTrap,
             address |-> "none", operand |-> 0]

NextC ==
    \/ \E status \in SetupStatus, ints \in SetupInterrupts, deleg \in SetupDelegation,
          medeleg \in SetupMedeleg, vectors \in SetupVectors :
          Setup(status, ints, deleg, medeleg, vectors)
    \/ TickADDI(0, 0)
    \/ \E address \in DOMAIN CsrValues : \E value \in CsrValues[address] :
          TickCSRRW(address, value)
    \/ TickECALL("Continue")
    \/ TickMRET
    \/ TickSRET
    \/ DeliverTrap

\* ------------------------------------------------------------------------
\* Cpu::tick as the worker of a thread drives it: the tick's result, the
\* wait for an interrupt, the zero register.

\* The words a thread starts with: mstatus, mie, ra (x1) and a0 (x10).
ThreadStatus == {0, MSTATUS_MIE}
ThreadMie == {0, MIP_MTIP}
ThreadRa == UnmappedPcs
ThreadA0 == {0, 7}

SetupThread(status, enable, ra, a0) ==
    /\ hh.op = "none"
    /\ hart' = [write_csr_raw(write_csr_raw(write_csr_raw(hart,
                    "mstatus", status), "mie", enable), "mtvec", MTVEC_DIRECT)
                EXCEPT !.x = write_register(write_register(hart.x, 1, ra), 10, a0)]
    /\ hh' = [hh EXCEPT !.op = "setup"]
    /\ UNCHANGED pending
    /\ UNCHANGED othersC

\* The timer is raised from outside the hart with write_csr_raw.
RaiseTimer ==
    /\ hh.op # "none"
    /\ Bit(hart.csr.mip, MachineTimerInterrupt) = 0
    /\ hart.panic = "none"
    /\ hart' = write_csr_raw(hart, "mip", hart.csr.mip + MIP_MTIP)
    /\ hh' = [hh EXCEPT !.op = "raise"]
    /\ UNCHANGED pending
    /\ UNCHANGED othersC

TickWFI ==
    /\ CanTickHart
    /\ SetTicked("WFI", Ticked_hart(tick_operate(hart, WFI(fetched(hart)))))
    /\ UNCHANGED othersC

\* ret: JALR x0, 0(ra)
TickJALR ==
    /\ CanTickHart
    /\ SetTicked("JALR", Ticked_hart(tick_operate(hart, JALR(fetched(hart), 0, 1, 0))))
    /\ UNCHANGED othersC

\* A word decode_raw has no instruction for.
TickUnknown ==
    /\ CanTickHart
    /\ SetTicked("unknown", Ticked_hart(tick_operate(hart, decode_panic(fetched(hart)))))
    /\ UNCHANGED othersC

\* execute_opcode called on the hart between ticks.
SetExecuted(op, r) ==
    /\ hart' = r.c
    /\ pending' = r.trap
    /\ hh' = [op |-> op, n |-> hh.n + 1, code |-> 0 - 1, value |-> 0,
              pc |-> hart.pc, executed |-> r.c,
              result |-> IF r.trap = NoTrap THEN "Ok" ELSE "Err", a0 |-> 0,
              raised |-> r.trap, address |-> "none", operand |-> 0]

ExecuteADDI(f_rd) ==
    /\ CanTickHart
    /\ ~hart.wfi
    /\ SetExecuted("execute ADDI", execute_opcode(hart, TRUE, ADDI(hart, f_rd, 0, 1)))
    /\ UNCHANGED othersC

ExecuteUnknown ==
    /\ CanTickHart
    /\ ~hart.wfi
    /\ SetExecuted("execute unknown", execute_opcode(hart, FALSE, Operated(hart, NoTrap)))
    /\ UNCHANGED othersC

NextD ==
    \/ \E status \in ThreadStatus, enable \in ThreadMie, ra \in ThreadRa,
          a0 \in ThreadA0 : SetupThread(status, enable, ra, a0)
    \/ RaiseTimer
    \/ \E f_rd \in {0, 10} : TickADDI(f_rd, f_rd)
    \/ TickWFI
    \/ TickJALR
    \/ \E syscall \in {"Continue", "Defer"} : TickECALL(syscall)
    \/ TickCSRRW("mstatus", MSTATUS_MIE)
    \/ TickMRET
    \/ TickUnknown
    \/ \E f_rd \in {0, 10} : ExecuteADDI(f_rd)
    \/ ExecuteUnknown

\* ------------------------------------------------------------------------
\* CSR instructions below Machine mode and the supervisor views of the
\* machine registers.

\* mstatus words with bits inside and outside the sstatus mask: SD, MIE and
\* SIE with MPP = User; MPIE, SPIE and SUM with MPP = Supervisor; MIE, MPRV
\* and SPP with MPP = Machine.
CsrStatus ==
    {MinI32 + Pow2(3) + Pow2(1),
     Pow2(11) + Pow2(7) + Pow2(5) + Pow2(18),
     3 * Pow2(11) + Pow2(3) + Pow2(17) + Pow2(8)}

\* mie and mip words with machine and supervisor bits.
CsrInterrupts ==
    {[mie |-> MIP_MEIP + MIP_SEIP, mip |-> MIP_MTIP + MIP_STIP],
     [mie |-> MIP_MSIP + MIP_STIP, mip |-> MIP_MEIP + MIP_SSIP]}

CsrAddresses == {"sstatus", "sie", "sip", "mstatus"}

\* The operand of a CSR instruction: x[rs], or the five bits of the rs field.
CsrOperands ==
    [CSRRW |-> {0 - 1, MIP_SEIP}, CSRRS |-> {0 - 1, MIP_SEIP},
     CSRRC |-> {0 - 1, MIP_SEIP}, CSRRWI |-> {31, 2}, CSRRSI |-> {31, 2},
     CSRRCI |-> {31, 2}]

SetupCsr(status, ints) ==
    /\ hh.op = "none"
    /\ hart' = write_csr_raw(write_csr_raw(write_csr_raw(write_csr_raw(hart,
                   "mstatus", status), "mie", ints.mie), "mip", ints.mip),
                   "mepc", MTVEC_DIRECT)
    /\ hh' = [hh EXCEPT !.op = "setup"]
    /\ UNCHANGED pending
    /\ UNCHANGED othersC

\* The program the hart runs: an optional MRET or SRET that leaves Machine
\* mode, then one CSR instruction.
CanTickCsr(after) ==
    /\ hh.op \in after
    /\ hart.panic = "none"
    /\ pending = NoTrap

TickCsr(name, address, f_rd, operand) ==
    /\ CanTickCsr({"setup", "MRET", "SRET"})
    /\ LET t == Ticked_hart(tick_operate(hart,
                     csr_operation(name, fetched(hart), address, f_rd, operand)))
       IN
        /\ hart' = t.c
        /\ pending' = t.trap
        /\ hh' = [op |-> name, n |-> hh.n + 1, code |-> t.code, value |-> 0,
                  pc |-> hart.pc, executed |-> t.executed, result |-> t.result,
                  a0 |-> t.a0, raised |-> t.raised, address |-> address,
                  operand |-> operand]
    /\ UNCHANGED othersC

TickReturn(name) ==
    /\ CanTickCsr({"setup", "MRET"})
    /\ SetTicked(name, Ticked_hart(tick_operate(hart,
                     IF name = "MRET" THEN MRET(fetched(hart)) ELSE SRET(fetched(hart)))))
    /\ UNCHANGED othersC

NextE ==
    \/ \E status \in CsrStatus, ints \in CsrInterrupts : SetupCsr(status, ints)
    \/ \E name \in DOMAIN CsrOperands, address \in CsrAddresses :
          \E operand \in CsrOperands[name] : TickCsr(name, address, 10, operand)
    \/ \E name \in {"MRET", "SRET"} : TickReturn(name)

\* ------------------------------------------------------------------------
\* SpecMmu: SV32 address translation (traverse_page above) and the accesses
\* that use it.  The page tables live in pool pages, read and written as
\* words; data bytes are held apart, by page number and offset: the tables
\* of the runs never map a page that holds a table.

MaxAccesses == 2

\* The pages of the runs: the level-0 table and the first of two data pages
\* follow the root table; the megapage has PPN[1] = 1.
l0_pt == l1_pt + 1
data_page == l1_pt + 2
mega_page == Pow2(10)

pte_word(ppn, flags) == ppn * Pow2(10) + flags

load_raw(bytes, ppn, offset) ==
    IF <<ppn, offset>> \in DOMAIN bytes THEN bytes[<<ppn, offset>>] ELSE 0

store_raw(bytes, ppn, offset, value) ==
    IF <<ppn, offset>> \in DOMAIN bytes
    THEN [bytes EXCEPT ![<<ppn, offset>>] = value] ELSE bytes

\* Ok(address): the virtual address is the physical address.
Direct(mem, v_address) ==
    [ok |-> TRUE, ppn |-> v_address \div 4096, offset |-> v_address % 4096, m |-> mem]

\* The privilege a Machine-mode data access with MPRV = 1 is made under:
\* decode_privilege_mode((self.mstatus >> 9) & 3)
mprv_privilege(mstatus) == decode_privilege_mode((mstatus \div Pow2(9)) % 4)

RECURSIVE translate_address_with_privilege_mode(_, _, _, _, _)
translate_address_with_privilege_mode(mu, mem, v_address, access_type, privilege_mode) ==
    IF privilege_mode = "Machine"
    THEN IF access_type = "Execute" THEN Direct(mem, v_address)
         ELSE IF Bit(mu.mstatus, 17) = 0 THEN Direct(mem, v_address)
         ELSE IF mprv_privilege(mu.mstatus) = "Machine" THEN Direct(mem, v_address)
         ELSE IF mprv_privilege(mu.mstatus) = "panic"
         THEN Fault(mem) @@ [panic |-> "Unknown privilege uncoding"]
         ELSE translate_address_with_privilege_mode(
                  mu, mem, v_address, access_type, mprv_privilege(mu.mstatus))
    ELSE traverse_page(mem, v_address, 1, mu.ppn, access_type)

translate_address(mu, mem, v_address, access_type) ==
    IF mu.addressing_mode = "None" THEN Direct(mem, v_address)
    ELSE translate_address_with_privilege_mode(mu, mem, v_address, access_type,
                                               mu.privilege_mode)

\* The trap of a failed access of each type.
PageFault(access_type) ==
    IF access_type = "Execute" THEN InstructionPageFault
    ELSE IF access_type = "Read" THEN LoadPageFault
    ELSE StorePageFault

\* The result of an access: the value read, the trap, the memory it leaves
\* and the page and offset of its first byte.
Accessed(value, t, bytes) ==
    [ok |-> TRUE, value |-> value, trap |-> NoTrap, m |-> t.m, bytes |-> bytes,
     ppn |-> t.ppn, offset |-> t.offset]
Faulted(access_type, value, mem, bytes) ==
    [ok |-> FALSE, value |-> 0, trap |-> Exception(PageFault(access_type), value),
     m |-> mem, bytes |-> bytes, ppn |-> 0, offset |-> 0]

\* The little-endian word of the width bytes of a page from offset on.
RECURSIVE load_width_raw(_, _, _, _)
load_width_raw(bytes, ppn, offset, width) ==
    IF width = 0 THEN 0
    ELSE load_raw(bytes, ppn, offset)
           + 256 * load_width_raw(bytes, ppn, offset + 1, width - 1)

RECURSIVE store_width_raw(_, _, _, _, _)
store_width_raw(bytes, ppn, offset, value, width) ==
    IF width = 0 THEN bytes
    ELSE store_width_raw(store_raw(bytes, ppn, offset, value % 256), ppn, offset + 1,
                         value \div 256, width - 1)

\* Mmu::load and Mmu::fetch, byte by byte from byte i: the slow path of
\* load_bytes and fetch_word.
RECURSIVE load_each(_, _, _, _, _, _, _)
load_each(mu, mem, bytes, v_address, i, width, access_type) ==
    IF i = width THEN Accessed(0, Direct(mem, 0), bytes)
    ELSE LET t == translate_address(mu, mem, v_address + i, access_type)
             rest == load_each(mu, t.m, bytes, v_address, i + 1, width, access_type)
         IN IF ~t.ok THEN Faulted(access_type, v_address + i, t.m, bytes)
            ELSE IF ~rest.ok THEN rest
            ELSE Accessed(load_raw(bytes, t.ppn, t.offset) + 256 * rest.value,
                          [t EXCEPT !.m = rest.m], bytes)

\* load_bytes and fetch_word with every fault naming the first byte.
load_bytes_first(mu, mem, bytes, v_address, width, access_type) ==
    LET t == translate_address(mu, mem, v_address, access_type)
        r == load_each(mu, mem, bytes, v_address, 0, width, access_type)
    IN IF (v_address % 4096) <= 4096 - width
       THEN IF t.ok
            THEN Accessed(load_width_raw(bytes, t.ppn, t.offset, width), t, bytes)
            ELSE Faulted(access_type, v_address, t.m, bytes)
       ELSE IF r.ok THEN r ELSE Faulted(access_type, v_address, r.m, bytes)

\* load_bytes (Read) and fetch_word (Execute).
load_bytes(mu, mem, bytes, v_address, width, access_type) ==
    LET t == translate_address(mu, mem, v_address, access_type) IN
    IF (v_address % 4096) <= 4096 - width
    THEN IF t.ok
         THEN Accessed(load_width_raw(bytes, t.ppn, t.offset, width), t, bytes)
         ELSE Faulted(access_type, v_address, t.m, bytes)
    ELSE load_each(mu, mem, bytes, v_address, 0, width, access_type)

\* Mmu::store byte by byte from byte i: the slow path of store_bytes.
RECURSIVE store_each(_, _, _, _, _, _, _)
store_each(mu, mem, bytes, v_address, value, i, width) ==
    IF i = width THEN Accessed(0, Direct(mem, 0), bytes)
    ELSE LET t == translate_address(mu, mem, v_address + i, "Write")
             rest == store_each(mu, t.m, store_raw(bytes, t.ppn, t.offset, value % 256),
                                v_address, value \div 256, i + 1, width)
         IN IF ~t.ok THEN Faulted("Write", v_address + i, t.m, bytes)
            ELSE IF ~rest.ok THEN rest
            ELSE Accessed(0, [t EXCEPT !.m = rest.m], rest.bytes)

Mmu_store_bytes(mu, mem, bytes, v_address, value, width) ==
    LET t == translate_address(mu, mem, v_address, "Write") IN
    IF (v_address % 4096) <= 4096 - width
    THEN IF t.ok
         THEN Accessed(0, t, store_width_raw(bytes, t.ppn, t.offset, value, width))
         ELSE Faulted("Write", v_address, t.m, bytes)
    ELSE store_each(mu, mem, bytes, v_address, value, 0, width)

\* The page-table words a run starts with.
AllFlags ==
    MMUFLAG_VALID + MMUFLAG_READABLE + MMUFLAG_WRITABLE + MMUFLAG_EXECUTABLE
      + MMUFLAG_ACCESSED + MMUFLAG_DIRTY

RootPtes ==
    {0,
     pte_word(l0_pt, MMUFLAG_VALID),
     pte_word(l0_pt, MMUFLAG_VALID + MMUFLAG_WRITABLE),
     pte_word(mega_page, AllFlags - MMUFLAG_ACCESSED - MMUFLAG_DIRTY),
     pte_word(mega_page + 1, AllFlags)}

LeafPtes ==
    {0,
     pte_word(data_page, MMUFLAG_VALID),
     pte_word(data_page, MMUFLAG_VALID + MMUFLAG_READABLE),
     pte_word(data_page, MMUFLAG_VALID + MMUFLAG_READABLE + MMUFLAG_WRITABLE
                           + MMUFLAG_ACCESSED),
     pte_word(data_page, MMUFLAG_VALID + MMUFLAG_EXECUTABLE + MMUFLAG_ACCESSED),
     pte_word(data_page, MMUFLAG_VALID + MMUFLAG_WRITABLE + MMUFLAG_EXECUTABLE),
     pte_word(data_page, AllFlags)}

NextLeafPtes ==
    {0, pte_word(data_page + 1, AllFlags - MMUFLAG_ACCESSED - MMUFLAG_DIRTY)}

\* The privilege and the mstatus copy of the Mmu: MPRV is bit 17, MPP bits
\* 12:11; the last word has MPP = User and bits 10:9 set.
MmuModes ==
    {[privilege_mode |-> "User", mstatus |-> 0],
     [privilege_mode |-> "Supervisor", mstatus |-> 0],
     [privilege_mode |-> "Machine", mstatus |-> 3 * Pow2(11)],
     [privilege_mode |-> "Machine", mstatus |-> Pow2(17) + Pow2(11)],
     [privilege_mode |-> "Machine", mstatus |-> Pow2(17) + 3 * Pow2(11)],
     [privilege_mode |-> "Machine", mstatus |-> Pow2(17) + 3 * Pow2(9)]}

\* The data bytes of the runs: the first and last bytes of the pages the
\* accesses can reach, directly or through the tables.
RamAddrs ==
    {0, 1, data_page, data_page + 1, mega_page, mega_page + 1}
       \X ((0 .. 5) \cup {4094, 4095})

InitByte(a) == (a[1] % 13) * 8 + (a[2] % 8)

\* The memory the translation walks: the pool pages as words.
MmuMem == [data |-> ptes]

\* The caller fills the tables and sets up the Mmu: update_addressing_mode,
\* update_ppn, update_privilege_mode, update_mstatus.
SetupMmu(root, leaf, next, mode) ==
    /\ ma.op = "none"
    /\ ptes' = write_u32(write_u32(write_u32(MmuMem, l1_pt, 0, root),
                                   l0_pt, 0, leaf), l0_pt, 1, next).data
    /\ mmu' = [addressing_mode |-> "SV32", ppn |-> l1_pt,
               privilege_mode |-> mode.privilege_mode, mstatus |-> mode.mstatus]
    /\ ma' = [ma EXCEPT !.op = "setup"]
    /\ UNCHANGED ram
    /\ UNCHANGED othersG

CanAccess ==
    /\ ma.op # "none"
    /\ ma.n < MaxAccesses

SetAccessed(op, access_type, v_address, width, value, r) ==
    /\ ptes' = r.m.data
    /\ ram' = r.bytes
    /\ ma' = [op |-> op, access_type |-> access_type, n |-> ma.n + 1,
              v_address |-> v_address, width |-> width, stored |-> value,
              ok |-> r.ok, value |-> r.value, trap |-> r.trap,
              ppn |-> r.ppn, offset |-> r.offset]
    /\ UNCHANGED mmu
    /\ UNCHANGED othersG

Load(v_address, width) ==
    /\ CanAccess
    /\ SetAccessed("load", "Read", v_address, width, 0,
                   load_bytes(mmu, MmuMem, ram, v_address, width, "Read"))

StoreBytes(v_address, value, width) ==
    /\ CanAccess
    /\ SetAccessed("store", "Write", v_address, width, value,
                   Mmu_store_bytes(mmu, MmuMem, ram, v_address, value, width))

FetchWord(v_address) ==
    /\ CanAccess
    /\ SetAccessed("fetch_word", "Execute", v_address, 4, 0,
                   load_bytes(mmu, MmuMem, ram, v_address, 4, "Execute"))

\* Mmu::new, over memory with a known byte at every address.
InitG ==
    /\ mmu = [addressing_mode |-> "None", ppn |-> 0, privilege_mode |-> "Machine",
              mstatus |-> 0]
    /\ ptes = [p \in Pool |-> [w \in TrackedWords |-> 0]]
    /\ ram = [a \in RamAddrs |-> InitByte(a)]
    /\ ma = [op |-> "none", access_type |-> "none", n |-> 0, v_address |-> 0,
             width |-> 0, stored |-> 0, ok |-> TRUE, value |-> 0, trap |-> NoTrap,
             ppn |-> 0, offset |-> 0]

\* The accesses of the runs: a byte inside the first page, and a word that
\* starts two bytes before its end.
Accesses == {[v_address |-> 2, width |-> 1], [v_address |-> 4094, width |-> 4]}

\* The word a store writes: 0x01020304, cut to the width.
StoredWord(width) ==
    IF width = 4 THEN ((1 * 256 + 2) * 256 + 3) * 256 + 4 ELSE 4

NextG ==
    \/ \E root \in RootPtes, leaf \in LeafPtes, next \in NextLeafPtes,
          mode \in MmuModes : SetupMmu(root, leaf, next, mode)
    \/ \E a \in Accesses : Load(a.v_address, a.width)
    \/ \E a \in Accesses : StoreBytes(a.v_address, StoredWord(a.width), a.width)
    \/ \E a \in Accesses : FetchWord(a.v_address)

\* ------------------------------------------------------------------------
\* SpecRace: a hart's store next to the memory syscalls of another hart.
\* Mmu::store_bytes translates the address (each read of a PTE takes and
\* releases the lock of the shared Memory) and then calls store_word_raw,
\* which takes the lock again; a syscall of another hart runs under the same
\* lock and can come in between.

NoStore == [st |-> "idle", v_address |-> 0, value |-> 0, ppn |-> 0, offset |-> 0]

\* The first half of store_word: translate_address for Write.  A failed
\* translation is the StorePageFault of the store and nothing is in flight.
StoreTranslate(v_address, value) ==
    /\ CanCall
    /\ xlat.st = "idle"
    /\ LET t == traverse_page(Mem, v_address, 1, l1_pt, "Write") IN
        /\ SetMem(t.m)
        /\ xlat' = IF t.ok
                   THEN [st |-> "translated", v_address |-> v_address, value |-> value,
                         ppn |-> t.ppn, offset |-> t.offset]
                   ELSE NoStore
    /\ Did("translate", 0, NoResult)
    /\ UNCHANGED <<varsA, varsT, varsB, varsC, varsG, varsK>>

\* The second half: store_word_raw at the physical address translated.
StoreRaw ==
    /\ panic = "none"
    /\ xlat.st = "translated"
    /\ SetMem(write_u32(Mem, xlat.ppn, xlat.offset \div 4, xlat.value))
    /\ xlat' = NoStore
    /\ UNCHANGED sys
    /\ UNCHANGED <<varsA, varsT, varsB, varsC, varsG, varsK>>

InitR == xlat = NoStore

NextR ==
    \/ NextM
    \/ \E page \in VPages, offset \in GuestOffsets, value \in GuestWords :
          StoreTranslate(page + offset, value)
    \/ StoreRaw

\* ------------------------------------------------------------------------
\* SpecTimer: the mutexes and condition variables of the ticktimer service.
\* A call runs under the lock of Ticktimer::mutexes or in one piece of the
\* service's caller; the threads it spawns run on their own.

\* Harts that call the service.
MaxCallers == 3
Callers == 1 .. MaxCallers

\* The one mutex and the one condition of the runs.
MutexIndex == "m"
ConditionIndex == "c"

Running(h) == tk.panic = "none" /\ caller[h].waits = "none"

TimerCalled(op, h, n) == [tk EXCEPT !.op = op, !.h = h, !.n = n]

\* Ticktimer::lock_mutex.  A locked mutex queues the sender of a wake-up and
\* spawns the thread that answers the caller once woken; the caller's hart
\* waits for that response.  Otherwise the mutex is marked locked and the
\* call is answered Scalar1(0) at once.
LockMutex(h) ==
    /\ Running(h) /\ ~caller[h].holds
    /\ IF MutexIndex \in DOMAIN mutexes /\ mutexes[MutexIndex]
       THEN /\ mutex_unlockers' = Append(mutex_unlockers, h)
            /\ unlock_threads' = [unlock_threads EXCEPT ![h] = "recv"]
            /\ caller' = [caller EXCEPT ![h].waits = "mutex"]
            /\ mutexes' = mutexes
       ELSE /\ mutexes' = [i \in {MutexIndex} |-> TRUE]
            /\ caller' = [caller EXCEPT ![h].holds = TRUE]
            /\ UNCHANGED <<mutex_unlockers, unlock_threads>>
    /\ tk' = TimerCalled("LockMutex", h, 0)
    /\ UNCHANGED <<condvars, wait_threads>>
    /\ UNCHANGED othersK

\* Ticktimer::unlock_mutex: expect("mutex didn't exist"), assert!(*mutex_locked),
\* the mutex is marked unlocked, and the first queued sender, if any, is sent
\* the wake-up.
UnlockMutex(h) ==
    /\ Running(h) /\ caller[h].holds
    /\ IF MutexIndex \notin DOMAIN mutexes
       THEN /\ tk' = [TimerCalled("UnlockMutex", h, 0) EXCEPT !.panic = "mutex didn't exist"]
            /\ UNCHANGED <<mutexes, mutex_unlockers, unlock_threads, caller>>
       ELSE IF ~mutexes[MutexIndex]
       THEN /\ tk' = [TimerCalled("UnlockMutex", h, 0) EXCEPT !.panic = "assert"]
            /\ UNCHANGED <<mutexes, mutex_unlockers, unlock_threads, caller>>
       ELSE /\ tk' = TimerCalled("UnlockMutex", h, 0)
            /\ mutexes' = [mutexes EXCEPT ![MutexIndex] = FALSE]
            /\ caller' = [caller EXCEPT ![h].holds = FALSE]
            /\ IF mutex_unlockers # <<>>
               THEN /\ mutex_unlockers' = Tail(mutex_unlockers)
                    /\ unlock_threads' =
                          [unlock_threads EXCEPT ![Head(mutex_unlockers)] = "woken"]
               ELSE UNCHANGED <<mutex_unlockers, unlock_threads>>
    /\ UNCHANGED <<condvars, wait_threads>>
    /\ UNCHANGED othersK

\* The thread lock_mutex spawned: wakeup_rx.recv() has returned, it sends
\* Scalar1(0), the deferred response of the caller's LockMutex.
UnlockThreadSend(h) ==
    /\ unlock_threads[h] = "woken"
    /\ unlock_threads' = [unlock_threads EXCEPT ![h] = "none"]
    /\ caller' = [caller EXCEPT ![h] = [waits |-> "none", holds |-> TRUE]]
    /\ UNCHANGED <<mutexes, mutex_unlockers, condvars, wait_threads, tk>>
    /\ UNCHANGED othersK

\* The waiters of the condition whose response has not been sent.
CondWaiters == {h \in Callers : caller[h].waits = "condition"}

\* Ticktimer::wait_for_condition with wait_count = 0: the entry of the
\* condition is created if absent, its count incremented, the thread that
\* will wait on the Condvar spawned, and the receiver returned.
WaitForCondition(h) ==
    /\ Running(h)
    /\ condvars' = [i \in {ConditionIndex} |->
                      IF ConditionIndex \in DOMAIN condvars
                      THEN condvars[ConditionIndex] + 1 ELSE 1]
    /\ wait_threads' = [wait_threads EXCEPT ![h] = "spawned"]
    /\ caller' = [caller EXCEPT ![h].waits = "condition"]
    /\ tk' = TimerCalled("WaitForCondition", h, 0)
    /\ UNCHANGED <<mutexes, mutex_unlockers, unlock_threads>>
    /\ UNCHANGED othersK

\* The spawned thread locks its own mutex and blocks in condvar.0.wait(guard).
WaitThreadWait(h) ==
    /\ wait_threads[h] = "spawned"
    /\ wait_threads' = [wait_threads EXCEPT ![h] = "waiting"]
    /\ UNCHANGED <<mutexes, mutex_unlockers, unlock_threads, condvars, caller, tk>>
    /\ UNCHANGED othersK

\* The threads blocked in Condvar::wait, and the sets of them that
\* condition_count calls of notify_one can wake: a call with no thread
\* blocked wakes none.
Blocked == {h \in Callers : wait_threads[h] = "waiting"}
Min(a, b) == IF a < b THEN a ELSE b
Woken(condition_count) ==
    {S \in SUBSET Blocked : Cardinality(S) = Min(condition_count, Cardinality(Blocked))}

\* Ticktimer::notify_condition with condition_count > 0.  Without an entry
\* for the condition it returns at once.
NotifyCondition(h, condition_count, woken) ==
    /\ Running(h)
    /\ IF ConditionIndex \notin DOMAIN condvars
       THEN /\ woken = {}
            /\ UNCHANGED wait_threads
            /\ tk' = TimerCalled("NotifyCondition", h, condition_count)
       ELSE /\ woken \in Woken(condition_count)
            /\ wait_threads' = [t \in Callers |->
                                  IF t \in woken THEN "notified" ELSE wait_threads[t]]
            /\ tk' = [TimerCalled("NotifyCondition", h, condition_count) EXCEPT
                         !.owed = [t \in Callers |->
                                      \/ tk.owed[t]
                                      \/ /\ t \in CondWaiters
                                         /\ condition_count >= Cardinality(CondWaiters)]]
    /\ UNCHANGED <<mutexes, mutex_unlockers, unlock_threads, condvars, caller>>
    /\ UNCHANGED othersK

\* The thread returns from Condvar::wait: it decrements the count and sends
\* Scalar1(0), the deferred response of WaitForCondition.
WaitThreadSend(h) ==
    /\ wait_threads[h] = "notified"
    /\ wait_threads' = [wait_threads EXCEPT ![h] = "none"]
    /\ condvars' = [condvars EXCEPT ![ConditionIndex] = @ - 1]
    /\ caller' = [caller EXCEPT ![h].waits = "none"]
    /\ tk' = [tk EXCEPT !.owed[h] = FALSE]
    /\ UNCHANGED <<mutexes, mutex_unlockers, unlock_threads>>
    /\ UNCHANGED othersK

\* Ticktimer::new, and harts that wait for nothing.
InitK ==
    /\ mutexes = [i \in {} |-> FALSE]
    /\ mutex_unlockers = <<>>
    /\ unlock_threads = [h \in Callers |-> "none"]
    /\ condvars = [i \in {} |-> 0]
    /\ wait_threads = [h \in Callers |-> "none"]
    /\ caller = [h \in Callers |-> [waits |-> "none", holds |-> FALSE]]
    /\ tk = [op |-> "none", h |-> 0, n |-> 0, panic |-> "none",
             owed |-> [h \in Callers |-> FALSE]]

NextK ==
    \/ \E h \in Callers : LockMutex(h)
    \/ \E h \in Callers : UnlockMutex(h)
    \/ \E h \in Callers : UnlockThreadSend(h)
    \/ \E h \in Callers : WaitForCondition(h)
    \/ \E h \in Callers : WaitThreadWait(h)
    \/ \E h \in Callers, condition_count \in 1 .. MaxCallers :
          \E woken \in SUBSET Callers : NotifyCondition(h, condition_count, woken)
    \/ \E h \in Callers : WaitThreadSend(h)

\* ------------------------------------------------------------------------
\* Specifications

Init == InitA /\ InitT /\ InitM /\ InitB /\ InitC /\ InitG /\ InitK /\ InitR

SpecAtomic == Init /\ [][NextA]_vars

SpecThreads == Init /\ [][NextT]_vars

SpecMem == Init /\ [][NextM]_vars

SpecBus == Init /\ [][NextB]_vars

SpecTrap == Init /\ [][NextC]_vars

SpecTick == Init /\ [][NextD]_vars

SpecCsr == Init /\ [][NextE]_vars

SpecMmu == Init /\ [][NextG]_vars

SpecRace == Init /\ [][NextR]_vars

SpecTimer == Init /\ [][NextK]_vars

\* The threads the service spawned are scheduled: one that can take a step
\* takes it.
SpecTimerFair ==
    /\ SpecTimer
    /\ \A h \in Callers : WF_vars(UnlockThreadSend(h))
    /\ \A h \in Callers : WF_vars(WaitThreadWait(h))
    /\ \A h \in Callers : WF_vars(WaitThreadSend(h))

\* Hart h issues SC.W (LR.W) in this step; the primed hst[h] names its address.
ScIssued(h) == gh'[h].n = gh[h].n + 1 /\ hst'[h].op = "SC.W"
LrIssued(h) == gh'[h].n = gh[h].n + 1 /\ hst'[h].op = "LR.W"
ScSucceeds(h) == hst'[h].pc = "sc_store"

\* C1: an AMO is indivisible: between the load of an AMO and its store the
\* word holds the value the AMO loaded, so no other hart's store or AMO to
\* that word takes effect in between.
C1_AmoIndivisible ==
    \A h \in Harts :
        hst[h].pc = "amo_store" => load_word_raw(amem, hst[h].addr) = hst[h].tmp

\* C2: if another hart stored to pa after hart h's LR.W on pa, h's SC.W on pa
\* fails: rd = 1 and memory is left as the other hart wrote it.
C2_LrScAtomic ==
    [][\A h \in Harts :
          (ScIssued(h) /\ gh[h].lr = hst'[h].addr /\ "store" \in gh[h].seen)
              => (~ScSucceeds(h) /\ rd'[h] = 1 /\ amem' = amem)]_vars

C4_LrScSequence ==
    [][\A h \in Harts :
          /\ LrIssued(h) => rd'[h] = amem[hst'[h].addr]
          /\ (hst[h].pc = "lr_reserve" /\ hst'[h].pc = "fetch")
                => /\ Entry(reservations', h) = hst[h].addr
                   /\ \A g \in Harts \ {h} :
                         Entry(reservations', g) = Entry(reservations, g)
          /\ ScIssued(h)
                => /\ ScSucceeds(h) <=> Entry(reservations, h) = hst'[h].addr
                   /\ h \notin DOMAIN reservations'
                   /\ amem' = amem
          /\ (ScIssued(h) /\ hst[h].op = "LR.W" /\ hst[h].addr = hst'[h].addr)
                => ScSucceeds(h)
          /\ (hst[h].pc = "sc_store" /\ hst'[h].pc = "fetch")
                => /\ amem' = [amem EXCEPT ![hst[h].addr] = hst[h].val]
                   /\ rd'[h] = 0
          /\ (ScIssued(h) /\ hst[h].op = "SC.W")
                => (~ScSucceeds(h) /\ rd'[h] = 1 /\ amem' = amem)]_vars

\* A hart has run LR.W P, SC.W P (success), SC.W P (failure).
C4_Witness ==
    \E h \in Harts : gh[h].chain = 3 /\ rd[h] = 1 /\ hst[h].pc = "fetch"

\* C5: every JoinThread(tid) request is answered exactly once, never before
\* hart tid has exited, with a Scalar1 result carrying the exit value of hart
\* tid, whether the join is requested before or after the exit.  Stated on
\* the channel of a hart paused in JoinThread: it holds at most one answer,
\* and an answer is there only once tid has exited and is Scalar1 with the
\* value tid's worker sent in ExitThread.
C5_JoinAnswered ==
    \A t \in Tids :
        (cpu[t].st = "paused" /\ gt.joinreq[t] # -1)
            => /\ Len(chan[t]) <= 1
               /\ \A i \in 1 .. Len(chan[t]) :
                     /\ gt.joinreq[t] \in DOMAIN gt.exit_value
                     /\ chan[t][i] =
                            [image |-> Scalar1Image(gt.exit_value[gt.joinreq[t]]),
                             data |-> NoData]

LeafTargets ==
    {PtePpn(read_u32(Mem, l1_pt, v1)) :
        v1 \in {v \in {VPN1(ALLOC_START), VPN1(HEAP_START)} :
                   /\ HasFlag(read_u32(Mem, l1_pt, v), MMUFLAG_VALID)
                   /\ HasRWX(read_u32(Mem, l1_pt, v))}}
    \cup
    {PtePpn(read_u32(Mem, PtePpn(read_u32(Mem, l1_pt, e[1])), e[2])) :
        e \in {f \in {VPN1(ALLOC_START), VPN1(HEAP_START)} \X (0 .. MaxSlot) :
                  /\ HasFlag(read_u32(Mem, l1_pt, f[1]), MMUFLAG_VALID)
                  /\ ~HasRWX(read_u32(Mem, l1_pt, f[1]))
                  /\ HasFlag(read_u32(Mem, PtePpn(read_u32(Mem, l1_pt, f[1])), f[2]),
                             MMUFLAG_VALID)}}

\* C7: after any sequence of MapMemory, IncreaseHeap, UnmapMemory,
\* UpdateMemoryFlags, ensure_page calls and guest stores, every valid leaf PTE
\* reachable from the root page table names a page that is in the allocated
\* set and not in the free set.
C7_LeafInAllocated ==
    panic = "none"
        => \A ppn \in LeafTargets : ppn \in allocated_pages /\ ppn \notin free_pages

\* C8: the free set and the allocated set are disjoint and their union is
\* the pool fixed at construction; from every reachable state allocate_page
\* moves exactly one page from free to allocated, and a free_page that
\* succeeds moves exactly one page from allocated to free.
C8_Partition ==
    /\ free_pages \cap allocated_pages = {}
    /\ free_pages \cup allocated_pages = Pool
    /\ (panic = "none" /\ free_pages # {})
          => /\ allocate_page(Mem).m.panic = "none"
             /\ allocate_page(Mem).phys \in free_pages
             /\ allocate_page(Mem).m.free_pages
                    = free_pages \ {allocate_page(Mem).phys}
             /\ allocate_page(Mem).m.allocated_pages
                    = allocated_pages \cup {allocate_page(Mem).phys}
    /\ \A virt \in VPages :
          IF free_page(Mem, virt).ok
          THEN \E ppn \in allocated_pages :
                  /\ free_page(Mem, virt).m.allocated_pages = allocated_pages \ {ppn}
                  /\ free_page(Mem, virt).m.free_pages = free_pages \cup {ppn}
          ELSE /\ free_page(Mem, virt).m.allocated_pages = allocated_pages
               /\ free_page(Mem, virt).m.free_pages = free_pages

\* Pages have been allocated and one of them has been freed again.
C8_Witness ==
    /\ sys.name = "UnmapMemory" /\ sys.result = <<RES_Ok, 0, 0>>
    /\ Cardinality(allocated_pages) >= 2
    /\ \E ppn \in free_pages : \E q \in allocated_pages : ppn < q /\ q # l1_pt

\* The page-aligned addresses of the pages that overlap [start, start + size).
Overlapping(start, size) ==
    {4096 * ((start \div 4096) + k) : k \in 0 .. (((start % 4096) + size - 1) \div 4096)}

\* C9: a MapMemory(0, 0, size, flags) that succeeds returns a page-aligned
\* start such that every page overlapping [start, start + size) was unmapped
\* before the call and is mapped after it (so regions of different calls do
\* not overlap).
C9_MapMemoryFresh ==
    [][(sys'.name = "MapMemory" /\ sys'.result # NoResult
            /\ sys'.result[1] = RES_MemoryRange)
          => /\ sys'.result[2] % 4096 = 0
             /\ \A page \in Overlapping(sys'.result[2], sys'.arg) :
                   /\ ~virt_to_phys(Mem, page).some
                   /\ virt_to_phys(Mem', page).some]_vars

\* Physical pages MapMemory(size) needs from this state: one per page of
\* the region and one for the level-0 table if the window has none.
PagesNeeded(size) ==
    Len(Pages(FindStart(Mem, allocation_previous, size), size))
      + (IF HasFlag(read_u32(Mem, l1_pt,
                             VPN1(FindStart(Mem, allocation_previous, size))),
                    MMUFLAG_VALID)
         THEN 0 ELSE 1)

\* C10: a MapMemory that runs out of physical pages partway through its
\* region releases the pages it allocated, reports Error/OutOfMemory to the
\* guest and leaves the free set, the allocated set and the page tables as
\* they were before the call.
C10_OutOfMemoryRollback ==
    [][(sys'.name = "MapMemory" /\ free_pages # {}
            /\ PagesNeeded(sys'.arg) > Cardinality(free_pages))
          => /\ panic' = "none"
             /\ sys'.result = <<RES_Error, ERR_OutOfMemory, 0>>
             /\ free_pages' = free_pages
             /\ allocated_pages' = allocated_pages
             /\ data' = data]_vars

\* C11: IncreaseHeap(delta) with a page-aligned delta.  For delta = 0 it
\* returns MemoryRange(heap_start, heap_size or 4096 when heap_size is 0) and
\* changes nothing; for delta > 0 that fits it maps every page of the added
\* range, returns MemoryRange(old heap end, delta) and grows heap_size by
\* exactly delta.
C11_IncreaseHeap ==
    [][(sys'.name = "IncreaseHeap" /\ panic' = "none")
          => IF sys'.arg = 0
             THEN /\ sys'.result = <<RES_MemoryRange, HEAP_START,
                                     IF heap_size = 0 THEN 4096 ELSE heap_size>>
                  /\ UNCHANGED <<data, free_pages, allocated_pages, heap_size>>
             ELSE /\ sys'.result = <<RES_MemoryRange, HEAP_START + heap_size, sys'.arg>>
                  /\ heap_size' = heap_size + sys'.arg
                  /\ \A k \in DOMAIN Pages(HEAP_START + heap_size, sys'.arg) :
                        virt_to_phys(Mem', Pages(HEAP_START + heap_size, sys'.arg)[k]).some]_vars

\* A call of this name has just returned (or panicked).
Called(name) == sys'.n = sys.n + 1 /\ sys'.name = name

\* The buffer the service of the last SendMessage left, computed from the
\* state before the call.
ServiceRegion ==
    service_call(connections[bcall'.cid], bcall'.kind,
                 read_region(Mem, virt_to_phys(Mem, bcall'.buf)),
                 name_index[bcall'.cid], connection_index).region

\* C12: after a kind-1 SendMessage that the service answers inline with
\* MemoryReturned, the guest reads, at the virtual addresses of the buffer it
\* lent, the bytes as the service left them; a SendMessage of kind 2 or 3
\* does not modify memory.
C12_LendMutCopiedBack ==
    [][Called("SendMessage")
          => /\ (bcall'.kind = 1 /\ sys'.result # NoResult
                   /\ sys'.result[1] = RES_MemoryReturned)
                  => read_region(Mem', virt_to_phys(Mem', bcall'.buf)) = ServiceRegion
             /\ bcall'.kind \in {2, 3} => data' = data]_vars

C14_FreshIds ==
    [][/\ Called("Connect")
            => bcall'.cid \notin issued /\ connections[bcall'.cid] = "none"
       /\ Called("SendMessage")
            => \A t \in spawned' \ spawned : t.id \notin issued
       /\ \A t \in spawned \ spawned' : connections[t.id] = "none"]_vars

\* A tick ran to its end: tick_operate returned Ok and handle_interrupt was
\* called on the hart hh.executed; hh.code is the interrupt it took, or -1.
TickOps == {"ADDI", "CSRRW", "ECALL", "MRET", "SRET"}

InterruptsExamined ==
    /\ hh.op \in TickOps
    /\ pending = NoTrap
    /\ hh.executed.panic = "none"

OrderIndex(code) == CHOOSE k \in 1 .. Len(InterruptOrder) : InterruptOrder[k] = code

\* The interrupts handle_interrupt handed to handle_trap in that tick: the
\* pending and enabled ones up to the one taken.
Offered ==
    {code \in minterrupt(hh.executed) :
        hh.code = 0 - 1 \/ OrderIndex(code) <= OrderIndex(hh.code)}

TakenIff(c, code, target) ==
    \/ get_privilege_encoding(target) > get_privilege_encoding(c.privilege_mode)
    \/ /\ target = c.privilege_mode
       /\ current_xie(c) = 1
       /\ Bit(trap_ie(c, target), code) = 1

\* In Machine mode with MIE = 0 and MTI pending and enabled, a tick of ADDI
\* only executes the instruction.
MachineMaskedTick ==
    (/\ hh.op = "ADDI"
     /\ hh.executed.privilege_mode = "Machine"
     /\ Bit(hh.executed.csr.mstatus, 3) = 0
     /\ MachineTimerInterrupt \in minterrupt(hh.executed))
        => hh.code = 0 - 1 /\ hart = hh.executed /\ hart.pc = hh.pc + 4

\* C15 as stated: every interrupt handle_trap was applied to is taken iff
\* its target, Supervisor when its mideleg bit is set and Machine otherwise,
\* is above the current privilege, or equals it with xIE set and the source
\* enabled.
C15_AsStated ==
    InterruptsExamined =>
        /\ \A code \in Offered :
              (code = hh.code) <=>
                  TakenIff(hh.executed, code,
                           IF Bit(hh.executed.csr.mideleg, code) = 1
                           THEN "Supervisor" ELSE "Machine")
        /\ MachineMaskedTick

\* C15 (amended): every interrupt handle_trap was applied to is taken iff
\* its target is above the current privilege, or equals it with xIE set and
\* the source enabled, where the target is User when the mideleg and the
\* sideleg bit of the cause are both set, Supervisor when only the mideleg
\* bit is set and Machine otherwise; an interrupt whose target is below the
\* current privilege is never taken, and in Machine mode with MIE = 0 a
\* pending, enabled machine timer interrupt is not taken: the tick only
\* executes the instruction at pc.
C15_InterruptTaken ==
    InterruptsExamined =>
        /\ \A code \in Offered :
              (code = hh.code) <=>
                  TakenIff(hh.executed, code,
                           new_privilege_mode(hh.executed, Interrupt(code, 0)))
        /\ MachineMaskedTick

\* A tick of ADDI in Machine mode with MIE = 0 left the pending, enabled
\* machine timer interrupt alone.
C15_Witness ==
    /\ InterruptsExamined
    /\ hh.op = "ADDI"
    /\ hart.privilege_mode = "Machine"
    /\ Bit(hart.csr.mstatus, 3) = 0
    /\ MachineTimerInterrupt \in minterrupt(hart)
    /\ hh.code = 0 - 1

\* The last step took a trap: handle_trap was handed an exception by the
\* caller of tick, or handle_interrupt took an interrupt.  hh.executed is
\* the hart before the trap and hart the hart after it.
ExceptionDelivered == hh.op = "handle_trap"

InterruptTaken == hh.op \in TickOps /\ hh.code # 0 - 1

TrapTaken == (ExceptionDelivered \/ InterruptTaken) /\ hart.panic = "none"

TakenTrap ==
    IF ExceptionDelivered THEN Exception(hh.code, hh.value) ELSE Interrupt(hh.code, hh.executed.pc)

TakenAddress == IF ExceptionDelivered THEN hh.pc ELSE hh.executed.pc

\* The claimed pc for a trap to the level with this xtvec.
ClaimedPc(tvec) ==
    IF tvec % 4 = 0 THEN tvec ELSE (tvec - (tvec % 4)) + 4 * hh.code

TrapToMachineAsClaimed ==
    /\ (hart.csr.mstatus \div Pow2(11)) % 4
          = get_privilege_encoding(hh.executed.privilege_mode)
    /\ Bit(hart.csr.mstatus, 7) = Bit(hh.executed.csr.mstatus, 3)
    /\ Bit(hart.csr.mstatus, 3) = 0
    /\ ClearBits(hart.csr.mstatus, {3, 7, 11, 12})
          = ClearBits(hh.executed.csr.mstatus, {3, 7, 11, 12})
    /\ hart.csr.mepc = TakenAddress
    /\ hart.csr.mcause = (IF InterruptTaken THEN hh.code - 2147483647 - 1 ELSE hh.code)
    /\ hart.csr.mtval = TakenTrap.value
    /\ hart.mmu_privilege_mode = "Machine"
    /\ hart.pc = ClaimedPc(hart.csr.mtvec)

TrapToSupervisorAsClaimed ==
    /\ decode_privilege_mode(Bit(hart.csr.mstatus, 8)) = hh.executed.privilege_mode
    /\ Bit(hart.csr.mstatus, 5) = Bit(hh.executed.csr.mstatus, 1)
    /\ Bit(hart.csr.mstatus, 1) = 0
    /\ ClearBits(hart.csr.mstatus, {1, 5, 8})
          = ClearBits(hh.executed.csr.mstatus, {1, 5, 8})
    /\ hart.csr.sepc = TakenAddress
    /\ hart.csr.scause = (IF InterruptTaken THEN hh.code - 2147483647 - 1 ELSE hh.code)
    /\ hart.csr.stval = TakenTrap.value
    /\ hart.mmu_privilege_mode = "Supervisor"
    /\ hart.pc = ClaimedPc(hart.csr.stvec)

\* C16: a trap taken to level x in {M, S} leaves xPP = the privilege before
\* the trap, xPIE = the old xIE, xIE = 0 and every other status bit as it
\* was, xepc = the instruction address, xcause = the cause (bit 31 set for
\* an interrupt), xtval = the trap value, the hart's and the MMU's
\* privilege = x, and pc = xtvec, or the vectored address when the low two
\* bits of xtvec are not 0.
C16_TrapTaken ==
    TrapTaken =>
        /\ hart.privilege_mode = "Machine" => TrapToMachineAsClaimed
        /\ hart.privilege_mode = "Supervisor" => TrapToSupervisorAsClaimed

\* The order the claim gives: MEI, MSI, MTI, SEI, SSI, STI.
ClaimedOrder == <<11, 3, 7, 9, 1, 5>>

\* Positions of ClaimedOrder whose interrupt was pending and enabled when
\* the instruction had executed, and that handle_trap accepts.
Acceptable ==
    {k \in 1 .. Len(ClaimedOrder) :
        /\ Bit(hh.executed.csr.mip, ClaimedOrder[k]) = 1
        /\ Bit(hh.executed.csr.mie, ClaimedOrder[k]) = 1
        /\ handle_trap(hh.executed, Interrupt(ClaimedOrder[k], hh.executed.pc),
                       hh.executed.pc).taken}

FirstAcceptable == CHOOSE k \in Acceptable : \A j \in Acceptable : k <= j

\* C17: at the end of a tick the interrupts set in mip & mie are examined
\* in the order MEI, MSI, MTI, SEI, SSI, STI; the first that handle_trap
\* accepts is the only one taken, its mip bit is cleared and every other mip
\* bit is left as it was; when none is accepted the hart is left as the
\* instruction left it.
C17_InterruptOrder ==
    (InterruptsExamined /\ hart.panic = "none") =>
        IF Acceptable = {}
        THEN hh.code = 0 - 1 /\ hart = hh.executed
        ELSE /\ hh.code = ClaimedOrder[FirstAcceptable]
             /\ hart.csr.mip = WithBit(hh.executed.csr.mip, hh.code, 0)
             /\ [hart EXCEPT !.csr.mip = hh.executed.csr.mip]
                  = handle_trap(hh.executed, Interrupt(hh.code, hh.executed.pc),
                                hh.executed.pc).c

\* A tick that offered SEI, had it refused, and took SSI: SEIP is still set.
C17_Witness ==
    /\ InterruptsExamined
    /\ hh.code = SupervisorSoftwareInterrupt
    /\ SupervisorExternalInterrupt \in minterrupt(hh.executed)
    /\ Bit(hart.csr.mip, SupervisorExternalInterrupt) = 1
    /\ Bit(hart.csr.mip, SupervisorSoftwareInterrupt) = 0

\* The instruction of the last tick left the hart in Machine mode with
\* MIE = 1 and mie = mip = MTIP, and handle_interrupt was called.
TimerDue ==
    /\ InterruptsExamined
    /\ hart.panic = "none"
    /\ hh.executed.privilege_mode = "Machine"
    /\ Bit(hh.executed.csr.mstatus, 3) = 1
    /\ hh.executed.csr.mie = MIP_MTIP
    /\ hh.executed.csr.mip = MIP_MTIP

\* What C18 says of that tick but for the value of pc.
TimerTakenAfterExecute ==
    /\ hh.code = MachineTimerInterrupt
    /\ hart.csr.mcause = 7 - 2147483647 - 1
    /\ hh.op \in {"ADDI", "CSRRW"} => hh.executed.pc = hh.pc + 4
    /\ hart.csr.mepc = hh.executed.pc
    /\ [hart EXCEPT !.csr.mip = MIP_MTIP]
          = handle_trap(hh.executed, Interrupt(MachineTimerInterrupt, hh.executed.pc),
                        hh.executed.pc).c
    /\ MRET(fetched(hart)).c.pc = hh.executed.pc

\* C18 as stated: the tick leaves pc = mtvec.
C18_AsStated ==
    TimerDue => TimerTakenAfterExecute /\ hart.pc = hart.csr.mtvec

\* C18 (amended): with mie = mip = MTIP and MIE = 1 in Machine mode, one
\* tick executes its instruction and then takes the machine timer
\* interrupt: mcause = 0x80000007, mepc = the address of the next
\* instruction the hart would have executed, which is where MRET returns
\* to, and pc = mtvec when the low two bits of mtvec are 0, the base of
\* mtvec + 4 * 7 otherwise.
C18_InterruptAfterExecute ==
    TimerDue =>
        /\ TimerTakenAfterExecute
        /\ hart.pc = IF hart.csr.mtvec % 4 = 0 THEN hart.csr.mtvec
                     ELSE (hart.csr.mtvec - (hart.csr.mtvec % 4)) + 28

\* The run of the interrupt test: ADDI at pc 0, then the timer interrupt
\* with mepc = 4 and pc = mtvec.
C18_Witness ==
    /\ TimerDue
    /\ hh.op = "ADDI"
    /\ hh.pc = 0
    /\ hart.csr.mepc = 4
    /\ hart.pc = MTVEC_DIRECT

\* This step is a tick whose instruction is op and returned Ok; the primed
\* hh.executed is the hart as the instruction left it.
Executes(op) ==
    /\ hh'.n = hh.n + 1
    /\ hh'.op = op
    /\ pending' = NoTrap

Modes == {"User", "Supervisor", "Machine"}

\* The privilege the claim reads from xPP: 0 User, 1 Supervisor, 3 Machine.
ClaimedMode(xpp) ==
    IF xpp = 0 THEN "User" ELSE IF xpp = 1 THEN "Supervisor"
    ELSE IF xpp = 3 THEN "Machine" ELSE "Reserved"

MretAsClaimed ==
    /\ hh'.executed.pc = hart.csr.mepc
    /\ Bit(hh'.executed.csr.mstatus, 3) = Bit(hart.csr.mstatus, 7)
    /\ Bit(hh'.executed.csr.mstatus, 7) = 1
    /\ hh'.executed.privilege_mode = ClaimedMode((hart.csr.mstatus \div 2048) % 4)
    /\ (hh'.executed.csr.mstatus \div 2048) % 4 = 0

SretAsClaimed ==
    /\ hh'.executed.pc = hart.csr.sepc
    /\ Bit(hh'.executed.csr.mstatus, 1) = Bit(hart.csr.mstatus, 5)
    /\ Bit(hh'.executed.csr.mstatus, 5) = 1
    /\ hh'.executed.privilege_mode = ClaimedMode(Bit(hart.csr.mstatus, 8))
    /\ Bit(hh'.executed.csr.mstatus, 8) = 0

\* C19: MRET sets pc = mepc, MIE = old MPIE, MPIE = 1, privilege = old MPP
\* and MPP = 0; SRET does the same with sepc, SIE, SPIE and SPP; after
\* either the MMU's privilege copy equals the hart's privilege, which is
\* User, Supervisor or Machine.
C19_Return ==
    [][/\ (Executes("MRET") /\ hh'.executed.panic = "none") => MretAsClaimed
       /\ (Executes("SRET") /\ hh'.executed.panic = "none") => SretAsClaimed
       /\ (Executes("MRET") \/ Executes("SRET")) =>
              /\ hh'.executed.mmu_privilege_mode = hh'.executed.privilege_mode
              /\ hh'.executed.privilege_mode \in Modes]_vars

\* An MRET from Machine mode with MPP = Supervisor and MPIE = 0 has run.
C19_Witness ==
    /\ hh.op = "MRET"
    /\ pending = NoTrap
    /\ hh.executed.privilege_mode = "Supervisor"
    /\ hh.executed.mmu_privilege_mode = "Supervisor"
    /\ Bit(hh.executed.csr.mstatus, 3) = 0
    /\ Bit(hh.executed.csr.mstatus, 7) = 1
    /\ (hh.executed.csr.mstatus \div 2048) % 4 = 0

\* The caller of tick has just delivered the environment-call trap of an
\* ECALL with the address of the ECALL: hh.executed is the hart before the
\* trap, hh.pc the address A, hart the hart in the handler.
EcallDelivered ==
    /\ hh.op = "handle_trap"
    /\ hh.code \in {EnvironmentCallFromUMode, EnvironmentCallFromSMode,
                     EnvironmentCallFromMMode}
    /\ hart.panic = "none"

\* C20: after an ECALL at A in privilege p whose trap handle_trap delivered
\* with address A, the matching return instruction (MRET for a trap taken
\* to Machine, SRET for one taken to Supervisor) leaves the hart at
\* privilege p with pc = A and xIE as it was before the trap.
C20_EcallReturn ==
    [][/\ (EcallDelivered /\ hart.privilege_mode = "Machine" /\ Executes("MRET")) =>
              /\ hh'.executed.privilege_mode = hh.executed.privilege_mode
              /\ hh'.executed.pc = hh.pc
              /\ Bit(hh'.executed.csr.mstatus, 3) = Bit(hh.executed.csr.mstatus, 3)
       /\ (EcallDelivered /\ hart.privilege_mode = "Supervisor" /\ Executes("SRET")) =>
              /\ hh'.executed.privilege_mode = hh.executed.privilege_mode
              /\ hh'.executed.pc = hh.pc
              /\ Bit(hh'.executed.csr.mstatus, 1) = Bit(hh.executed.csr.mstatus, 1)]_vars

\* C21: a tick whose fetched word matches no entry of the instruction table
\* returns CpuTrap with kind IllegalInstruction and tval equal to the address
\* of the faulting instruction (the pc before it was advanced), through the
\* trap path and without aborting the emulator.
C21_DecodeFailure ==
    hh.op = "unknown"
        => /\ hart.panic = "none"
           /\ hh.result = "CpuTrap"
           /\ pending = Exception(IllegalInstruction, hh.pc)

\* The last step was a call of Cpu::tick.
TickReturned ==
    hh.op \in {"idle", "fetch", "ADDI", "CSRRW", "ECALL", "MRET", "WFI", "JALR"}

\* C22: a tick whose fetch fails with InstructionPageFault and value
\* 0xff803000 returns ExitThread carrying the current a0 and delivers no
\* trap; an instruction page fault with any other value, and every other trap
\* kind except PauseEmulation, makes the tick return CpuTrap with that trap.
C22_ExitThread ==
    /\ hh.op = "fetch" => hh.raised = Exception(InstructionPageFault, hh.pc)
    /\ (TickReturned /\ hh.raised # NoTrap /\ hh.raised.code # PauseEmulation)
          => IF hh.raised.code = InstructionPageFault
                /\ hh.raised.value = EXIT_THREAD_ADDRESS
             THEN /\ hh.result = "ExitThread"
                  /\ hh.a0 = hart.x[10]
                  /\ pending = NoTrap
             ELSE /\ hh.result = "CpuTrap"
                  /\ pending = hh.raised
    /\ (TickReturned /\ hh.raised = NoTrap) => hh.result = "Ok"

\* A thread has returned to the exit address with a0 = 7 and its tick has
\* returned ExitThread(7).
C22_Witness ==
    /\ hh.op = "fetch" /\ hh.pc = EXIT_THREAD_ADDRESS
    /\ hh.result = "ExitThread" /\ hh.a0 = 7

\* Hart t's tick returns a CpuTrap in this step: it was running away from
\* the exit address and its worker returns.
TrapExit(t) ==
    /\ cpu[t].st = "running" /\ cpu[t].pc # EXIT_THREAD_PC
    /\ cpu'[t].st = "exited"

\* 0xFFFFFFFF as a 32-bit word.
AllOnes == 0 - 1

\* C23: a hart whose tick returns an unhandled CpuTrap stops executing, the
\* exit value sent for it (and so delivered to the harts that join it) is
\* all-ones, and every other hart is left as it was and keeps running.
C23_TrapExit ==
    [][\A t \in Tids :
          TrapExit(t)
              => /\ memory_cmd' = Append(memory_cmd,
                                         [kind |-> "ExitThread", tid |-> t,
                                          result |-> AllOnes])
                 /\ \A u \in Tids \ {t} : cpu'[u] = cpu[u] /\ chan'[u] = chan[u]]_vars

\* This step is a call of Cpu::tick.
TickStep == hh'.n = hh.n + 1 /\ hh'.op \notin {"execute ADDI", "execute unknown"}

\* The pending and enabled interrupt can be taken: the hart is below
\* Machine mode, or mstatus.MIE is set (nothing is delegated here).
Takeable == hart.privilege_mode # "Machine" \/ Bit(hart.csr.mstatus, 3) = 1

\* C24: after WFI has executed, a tick during which (mie & mip) = 0 fetches
\* and executes nothing and leaves pc and the general registers unchanged;
\* the first tick at which (mie & mip) is non-zero clears the wait flag, and
\* if the pending interrupt is takeable that same tick ends with pc at the
\* trap vector.
C24_WaitForInterrupt ==
    [][/\ (TickStep /\ hh'.op = "WFI") => hh'.executed.wfi
       /\ (TickStep /\ hart.wfi)
             => /\ hh'.op = "idle" /\ hh'.result = "Ok" /\ pending' = NoTrap
                /\ hart'.x = hart.x
                /\ IF minterrupt(hart) = {}
                   THEN hart' = hart
                   ELSE /\ ~hart'.wfi
                        /\ hart'.pc = IF Takeable THEN hart.csr.mtvec ELSE hart.pc]_vars

\* A waiting hart has taken the machine timer interrupt: the tick executed
\* nothing and ended at the trap vector with the wait flag clear.
C24_Witness ==
    /\ hh.op = "idle" /\ hh.code = MachineTimerInterrupt
    /\ hart.pc = MTVEC_DIRECT /\ ~hart.wfi /\ hart.csr.mepc = hh.pc

\* C25: x0 is hardwired to zero: read_register(0) returns 0 in every
\* reachable state, write_register(r, v) makes read_register(r) return v for
\* r # 0 and has no effect for r = 0, and after every instruction the hart
\* executes, through tick or execute_opcode, trapping or not, with rd = x0
\* or not, the register-file slot x[0] holds 0.
C25_ZeroRegister ==
    /\ read_register(hart, 0) = 0
    /\ \A reg \in XRegs, val \in {0, 1, 7} :
          /\ read_register([hart EXCEPT !.x = write_register(hart.x, reg, val)], reg)
                = IF reg = 0 THEN 0 ELSE val
          /\ reg = 0 => write_register(hart.x, reg, val) = hart.x
    /\ hart.x[0] = 0

\* The 12-bit addresses of the CSRs the programs name (0x300, 0x100, 0x104,
\* 0x144, 0x341, 0x141).
CsrNumber ==
    [mstatus |-> 768, sstatus |-> 256, sie |-> 260, sip |-> 324, mepc |-> 833,
     sepc |-> 321]

\* Bits [9:8] of the address exceed the encoding of the hart's privilege.
AbovePrivilege(address) ==
    (CsrNumber[address] \div 256) % 4 > get_privilege_encoding(hart.privilege_mode)

\* The instruction of this step left the hart as the fetch left it and
\* raised IllegalInstruction with the address of the instruction.
IllegalAndUnchanged ==
    /\ hh'.raised = Exception(IllegalInstruction, hh'.executed.pc - 4)
    /\ hh'.raised.value = hart.pc
    /\ hh'.result = "CpuTrap" /\ pending' = hh'.raised
    /\ hh'.executed = [hart EXCEPT !.pc = hart.pc + 4]

\* C26: a CSR instruction (CSRRW, CSRRS, CSRRC and the immediate forms) whose
\* CSR address has bits [9:8] above the current privilege encoding raises
\* IllegalInstruction with tval = pc - 4, the address of the instruction, and
\* changes neither the CSR nor rd; the same gate makes MRET outside Machine
\* mode and SRET in User mode trap without changing pc, privilege or status.
C26_CsrPrivilege ==
    [][(hh'.n = hh.n + 1)
          => /\ hh'.op \in DOMAIN CsrOperands
                   => IF AbovePrivilege(hh'.address) THEN IllegalAndUnchanged
                      ELSE hh'.raised = NoTrap
             /\ hh'.op = "MRET"
                   => IF AbovePrivilege("mepc") THEN IllegalAndUnchanged
                      ELSE hh'.raised = NoTrap /\ hh'.executed.pc = hart.csr.mepc
             /\ hh'.op = "SRET"
                   => IF AbovePrivilege("sepc") THEN IllegalAndUnchanged
                      ELSE hh'.raised = NoTrap /\ hh'.executed.pc = hart.csr.sepc]_vars

\* In Supervisor mode a CSRRW to mstatus has trapped: rd and mstatus are as
\* before and the trap names the instruction.
C26_Witness ==
    /\ hh.op = "CSRRW" /\ hh.address = "mstatus"
    /\ hart.privilege_mode = "Supervisor"
    /\ pending = Exception(IllegalInstruction, hh.pc)
    /\ hart.x[10] = 0

\* 0x800de162 and 0x222 as i32 words, and the machine register behind each
\* supervisor view.
ViewMask == [sstatus |-> MinI32 + 909666, sie |-> 546, sip |-> 546]
ViewOf == [sstatus |-> "mstatus", sie |-> "mie", sip |-> "mip"]

BitNot(a) == (0 - 1) - a

\* The word the CSR instruction of this step writes, from the word it read.
Written(read) ==
    CASE hh'.op \in {"CSRRW", "CSRRWI"} -> hh'.operand
      [] hh'.op \in {"CSRRS", "CSRRSI"} -> BitOr(read, hh'.operand)
      [] hh'.op \in {"CSRRC", "CSRRCI"} -> BitAnd(read, BitNot(hh'.operand))

\* C27: a read of SSTATUS, SIE or SIP returns exactly MSTATUS & 0x800DE162,
\* MIE & 0x222 or MIP & 0x222; a write of v through one of them sets the
\* masked bits of the machine register to the bits of v and leaves every bit
\* outside the mask, and every other register, unchanged.
C27_SupervisorViews ==
    [][(/\ hh'.n = hh.n + 1
        /\ hh'.op \in DOMAIN CsrOperands
        /\ hh'.address \in DOMAIN ViewOf
        /\ hh'.raised = NoTrap)
          => LET mask == ViewMask[hh'.address]
                 reg == ViewOf[hh'.address]
                 read == BitAnd(hart.csr[reg], mask)
             IN
              /\ hh'.executed.x[10] = read
              /\ hh'.executed.csr[reg]
                    = BitOr(BitAnd(hart.csr[reg], BitNot(mask)),
                            BitAnd(Written(read), mask))
              /\ \A a \in DOMAIN hart.csr \ {reg} : hh'.executed.csr[a] = hart.csr[a]]_vars

\* In Supervisor mode CSRRW has written all-ones to sstatus: rd holds the
\* masked old word (MIE and MPIE invisible), mstatus has every masked bit
\* set, bit 31 included, keeps MIE and MPIE and leaves MPP clear.
C27_Witness ==
    /\ hh.op = "CSRRW" /\ hh.address = "sstatus" /\ hh.operand = 0 - 1
    /\ hh.executed.privilege_mode = "Supervisor"
    /\ hh.executed.x[10] = Pow2(5) + Pow2(18)
    /\ hh.executed.csr.mstatus = (MinI32 + 909666) + Pow2(3) + Pow2(7)

\* This step is an access through the Mmu.
AccessStep == ma'.n = ma.n + 1

\* The access of this step as an Mmu in the state mu makes it.
AccessBy(mu) ==
    CASE ma'.op = "load" ->
             load_bytes(mu, MmuMem, ram, ma'.v_address, ma'.width, "Read")
      [] ma'.op = "store" ->
             Mmu_store_bytes(mu, MmuMem, ram, ma'.v_address, ma'.stored, ma'.width)
      [] ma'.op = "fetch_word" ->
             load_bytes(mu, MmuMem, ram, ma'.v_address, ma'.width, "Execute")

\* The step did what the access of an Mmu in the state mu does.
AccessedAs(mu) ==
    /\ ma'.ok = AccessBy(mu).ok /\ ma'.value = AccessBy(mu).value
    /\ ma'.trap = AccessBy(mu).trap
    /\ ma'.ppn = AccessBy(mu).ppn /\ ma'.offset = AccessBy(mu).offset
    /\ ptes' = AccessBy(mu).m.data /\ ram' = AccessBy(mu).bytes

\* C28: with SV32 enabled and the hart in Machine mode, fetches, and data
\* accesses with mstatus.MPRV = 0, use the virtual address as the physical
\* address; with MPRV = 1 a data access is translated under the privilege in
\* mstatus.MPP (bits 12:11) and is direct only if that field is Machine.
C28_MprvTranslation ==
    [][(AccessStep /\ mmu.addressing_mode = "SV32" /\ mmu.privilege_mode = "Machine")
          => IF \/ ma'.access_type = "Execute"
                \/ Bit(mmu.mstatus, 17) = 0
                \/ (mmu.mstatus \div Pow2(11)) % 4 = 3
             THEN /\ ma'.ok /\ ptes' = ptes
                  /\ ma'.ppn = ma'.v_address \div 4096
                  /\ ma'.offset = ma'.v_address % 4096
                  /\ AccessedAs([mmu EXCEPT !.addressing_mode = "None"])
             ELSE AccessedAs([mmu EXCEPT !.privilege_mode =
                                 decode_privilege_mode((mmu.mstatus \div Pow2(11)) % 4)])]_vars

\* The privilege of the Mmu makes every access walk the page tables.
Translating == mmu.addressing_mode = "SV32" /\ mmu.privilege_mode # "Machine"

\* The virtual addresses of the bytes of the access of this step.
AccessBytes == {ma'.v_address + i : i \in 0 .. (ma'.width - 1)}

\* The root entry a virtual address selects before the step, and whether it
\* is a leaf (R or X set).
RootOf(va) == read_u32(MmuMem, l1_pt, VPN1(va))
RootIsLeaf(va) == Bit(RootOf(va), 1) = 1 \/ Bit(RootOf(va), 3) = 1

\* The table page and index of the leaf PTE of a virtual address.
LeafSlot(va) ==
    IF RootIsLeaf(va) THEN <<l1_pt, VPN1(va)>>
    ELSE <<(RootOf(va) \div Pow2(10)) % Pow2(22), VPN0(va)>>

\* The physical page the leaf of a virtual address names.
PhysPage(va) ==
    LET pte == read_u32(MmuMem, LeafSlot(va)[1], LeafSlot(va)[2]) IN
    IF RootIsLeaf(va) THEN ((pte \div Pow2(20)) % Pow2(12)) * Pow2(10) + VPN0(va)
    ELSE (pte \div Pow2(10)) % Pow2(22)

PhysByte(va) == <<PhysPage(va), va % 4096>>

\* The little-endian value of the bytes the access covers, before the step.
RECURSIVE ValueFrom(_, _)
ValueFrom(va, width) ==
    IF width = 0 THEN 0
    ELSE ram[PhysByte(va)] + 256 * ValueFrom(va + 1, width - 1)

\* C29: a successful translated access leaves every leaf PTE it went through
\* with A = 1, and with D = 1 if it is a write; a read or fetch leaves D as it
\* was; a leaf that already had the bits is unchanged, as is every other
\* page-table word; a load or fetch returns the bytes at the translated
\* physical addresses and changes no byte, a store writes its bytes there
\* and no other byte.
C29_AccessedDirty ==
    [][(AccessStep /\ Translating /\ ma'.ok)
          => /\ \A va \in AccessBytes :
                   LET slot == LeafSlot(va)
                       pte == ptes[slot[1]][slot[2]]
                       new == ptes'[slot[1]][slot[2]]
                   IN /\ Bit(new, 6) = 1
                      /\ Bit(new, 7) = IF ma'.access_type = "Write" THEN 1 ELSE Bit(pte, 7)
                      /\ new = pte + (IF Bit(pte, 6) = 0 THEN Pow2(6) ELSE 0)
                                   + (IF ma'.access_type = "Write" /\ Bit(pte, 7) = 0
                                      THEN Pow2(7) ELSE 0)
             /\ \A p \in Pool, w \in TrackedWords :
                   (\A va \in AccessBytes : LeafSlot(va) # <<p, w>>)
                      => ptes'[p][w] = ptes[p][w]
             /\ IF ma'.access_type = "Write"
                THEN ram' = [a \in DOMAIN ram |->
                               IF \E i \in 0 .. (ma'.width - 1) :
                                     a = PhysByte(ma'.v_address + i)
                               THEN LET i == CHOOSE i \in 0 .. (ma'.width - 1) :
                                                a = PhysByte(ma'.v_address + i)
                                    IN (ma'.stored \div Pow2(8 * i)) % 256
                               ELSE ram[a]]
                ELSE /\ ram' = ram
                     /\ ma'.value = ValueFrom(ma'.v_address, ma'.width)]_vars

\* A User-mode store of a word across the page boundary has succeeded: the
\* first leaf (A = 1, D = 0 before) now has D, the leaf of the next page
\* (A = D = 0 before) has both, and the four bytes are in the two pages.
C29_Witness ==
    /\ ma.op = "store" /\ ma.ok /\ ma.v_address = 4094 /\ ma.n = 1
    /\ mmu.privilege_mode = "User"
    /\ ptes[l0_pt][0] = pte_word(data_page, MMUFLAG_VALID + MMUFLAG_READABLE
                                   + MMUFLAG_WRITABLE + MMUFLAG_ACCESSED + MMUFLAG_DIRTY)
    /\ ptes[l0_pt][1] = pte_word(data_page + 1, AllFlags)
    /\ ram[<<data_page, 4094>>] = 4 /\ ram[<<data_page, 4095>>] = 3
    /\ ram[<<data_page + 1, 0>>] = 2 /\ ram[<<data_page + 1, 1>>] = 1

\* The walk of a virtual address as the tables before the step decide it: a
\* PTE is invalid with V = 0 or with R = 0 and W = 1, a pointer with
\* R = X = 0, and lacks the permission when the bit of the access type is
\* clear.
PteInvalid(pte) == Bit(pte, 0) = 0 \/ (Bit(pte, 1) = 0 /\ Bit(pte, 2) = 1)
PtePointer(pte) == Bit(pte, 1) = 0 /\ Bit(pte, 3) = 0
PteLacks(pte, access_type) ==
    \/ access_type = "Execute" /\ Bit(pte, 3) = 0
    \/ access_type = "Read" /\ Bit(pte, 1) = 0
    \/ access_type = "Write" /\ Bit(pte, 2) = 0

WalkFails(va, access_type) ==
    LET root == RootOf(va)
        leaf == read_u32(MmuMem, (root \div Pow2(10)) % Pow2(22), VPN0(va))
    IN IF PteInvalid(root) THEN TRUE
       ELSE IF PtePointer(root)
            THEN PteInvalid(leaf) \/ PtePointer(leaf) \/ PteLacks(leaf, access_type)
            ELSE PteLacks(root, access_type) \/ (root \div Pow2(10)) % Pow2(10) # 0

\* The page fault of each access type.
FaultOf ==
    [Execute |-> InstructionPageFault, Read |-> LoadPageFault, Write |-> StorePageFault]

\* The bytes of the access of this step whose walk fails.  An access inside
\* one page walks for its first byte only.
FailingBytes ==
    {va \in AccessBytes :
        /\ WalkFails(va, ma'.access_type)
        /\ (ma'.v_address % 4096) <= 4096 - ma'.width => va = ma'.v_address}

FirstFailing == CHOOSE va \in FailingBytes : \A other \in FailingBytes : va <= other

\* The access of this step, with tval the outcome a failed walk reports.
WalkOutcome(tval) ==
    IF FailingBytes # {}
    THEN /\ ~ma'.ok
         /\ ma'.trap = Exception(FaultOf[ma'.access_type], tval)
    ELSE /\ ma'.ok
         /\ ma'.trap = NoTrap
         /\ ma'.ppn = PhysPage(ma'.v_address)
         /\ ma'.offset = ma'.v_address % 4096

\* C30 as stated: under User or Supervisor privilege an access fails exactly
\* when a walk meets an invalid PTE, a pointer at the last level, a leaf
\* without the permission of the access type or a misaligned level-1 leaf,
\* and otherwise yields the leaf's page with the page offset; the fault has
\* the type of the access and tval = the virtual address of the access.
C30_AsStated ==
    [][(AccessStep /\ Translating) => WalkOutcome(ma'.v_address)]_vars

\* C30, amended: the same, with tval = the virtual address of the first byte
\* whose walk failed, which is the address of the access unless the access
\* crosses a page boundary.
C30_PageWalk ==
    [][(AccessStep /\ Translating) => WalkOutcome(FirstFailing)]_vars

\* A User-mode word load two bytes before the end of a mapped page, with the
\* next page unmapped, has failed with LoadPageFault and tval = the address
\* of the next page.
C30_Witness ==
    /\ ma.op = "load" /\ ma.v_address = 4094 /\ ma.width = 4 /\ ~ma.ok
    /\ mmu.privilege_mode = "User"
    /\ ptes[l0_pt][0] = pte_word(data_page, AllFlags) /\ ptes[l0_pt][1] = 0
    /\ ma.trap = Exception(LoadPageFault, 4096)

\* This step is a call of UpdateMemoryFlags(address, range, value).
FlagsStep == sys'.n = sys.n + 1 /\ sys'.name = "UpdateMemoryFlags"

\* The page-table slot (table page, index) of the leaf PTE of a page before
\* the step, when the root entry of the page is valid.
FlagsLeafSlot(page) ==
    <<PtePpn(read_u32(Mem, l1_pt, VPN1(page))), VPN0(page)>>

\* The slots of the leaves of the mapped pages inside [address, address + range).
FlagsAffected(address, range) ==
    {FlagsLeafSlot(address + 4096 * k) : k \in
        {j \in 0 .. ((range - 1) \div 4096) :
            /\ Bit(read_u32(Mem, l1_pt, VPN1(address + 4096 * j)), 0) = 1
            /\ Bit(read_u32(Mem, FlagsLeafSlot(address + 4096 * j)[1],
                            FlagsLeafSlot(address + 4096 * j)[2]), 0) = 1}}

\* C31: UpdateMemoryFlags never adds a permission: every page-table word
\* keeps its PPN and its V, U, G, A, D bits, its R/W/X bits after the call
\* are among those it had before, and the only words that change are valid
\* leaf PTEs of pages inside the range.
C31_FlagsOnlyRemoved ==
    [][FlagsStep
          => LET affected == FlagsAffected(sys'.arg[1], sys'.arg[2]) IN
             \A p \in Pool, w \in TrackedWords :
                \/ data'[p][w] = data[p][w]
                \/ /\ \A b \in 1 .. 3 : Bit(data'[p][w], b) <= Bit(data[p][w], b)
                   /\ data'[p][w] \div Pow2(4) = data[p][w] \div Pow2(4)
                   /\ Bit(data'[p][w], 0) = Bit(data[p][w], 0)
                   /\ <<p, w>> \in affected]_vars

\* UpdateMemoryFlags(ALLOC_START, 8192, R) has returned Ok over two mapped
\* pages: both leaves are valid, keep U, A and D, and have R without W and X.
C31_Witness ==
    /\ sys.name = "UpdateMemoryFlags" /\ panic = "none"
    /\ sys.arg = <<ALLOC_START, 8192, MMUFLAG_READABLE>>
    /\ \E t \in Pool, a \in Pool, b \in Pool :
          /\ a # b
          /\ data[l1_pt][VPN1(ALLOC_START)] = TablePte(t)
          /\ data[t][0] = LeafPte(a) - MMUFLAG_WRITABLE - MMUFLAG_EXECUTABLE
          /\ data[t][1] = LeafPte(b) - MMUFLAG_WRITABLE - MMUFLAG_EXECUTABLE

\* C32: in every state of the hart the Mmu's copy of mstatus is the MSTATUS
\* CSR, its privilege is the hart's privilege, its addressing mode is SV32
\* exactly when bit 31 of the SATP CSR is set and its root page number is
\* bits 21..0 of the SATP CSR.
C32_MmuFollowsHart ==
    /\ hart.mmu_mstatus = hart.csr.mstatus
    /\ hart.mmu_privilege_mode = hart.privilege_mode
    /\ hart.mmu_addressing_mode = (IF hart.csr.satp < 0 THEN "SV32" ELSE "None")
    /\ hart.mmu_ppn = hart.csr.satp % Pow2(22)

\* A hart that wrote satp with the SV32 bit, an ASID bit and a page number
\* has taken a trap to Supervisor mode: trap entry rewrote mstatus, the
\* privilege changed, and the Mmu has the page number without the ASID bit.
C32_Witness ==
    /\ hart.privilege_mode = "Supervisor" /\ hart.panic = "none"
    /\ hh.op = "handle_trap"
    /\ hart.csr.satp = MinI32 + Pow2(22) + MEMORY_BASE_PPN + 1
    /\ hart.mmu_addressing_mode = "SV32" /\ hart.mmu_ppn = MEMORY_BASE_PPN + 1
    /\ hart.csr.mstatus # 0

\* C33: the ticktimer mutex provides mutual exclusion: at most one hart
\* holds the mutex, a hart holding it from the answer to its LockMutex until
\* its UnlockMutex.
C33_MutualExclusion ==
    Cardinality({h \in Callers : caller[h].holds}) <= 1

\* C34: an UnlockMutex by a hart that holds the mutex finds the mutex
\* recorded as locked: the assertion of unlock_mutex does not fail.
C34_UnlockFindsLocked ==
    [][(\E h \in Callers : caller[h].holds
                             /\ (~caller'[h].holds \/ tk'.panic # tk.panic))
          => /\ MutexIndex \in DOMAIN mutexes
             /\ mutexes[MutexIndex]
             /\ tk'.panic = "none"]_vars

\* C35: no wake-up is lost: a waiter accepted by WaitForCondition, once a
\* NotifyCondition with a count of at least the number of waiting waiters
\* has been made, is eventually sent its response.
C35_NoLostWakeup ==
    \A h \in Callers : tk.owed[h] ~> ~tk.owed[h]

\* This step is the write of a store that was translated earlier.
StoreRawStep == xlat.st = "translated" /\ xlat'.st = "idle"

\* C36: translation and access are atomic with respect to UnmapMemory by
\* another hart: the physical page a store writes is the page its virtual
\* address is mapped to at the moment of the write.
C36_StoreAtomic ==
    [][StoreRawStep
          => /\ virt_to_phys(Mem, xlat.v_address).some
             /\ virt_to_phys(Mem, xlat.v_address).ppn = xlat.ppn]_vars

\* C37: taking a trap never lowers the privilege: after handle_trap has
\* returned true, for an interrupt or an exception, the hart's privilege is
\* at least the privilege it had when handle_trap was called.
C37_TrapNeverLowers ==
    TrapTaken =>
        get_privilege_encoding(hart.privilege_mode)
            >= get_privilege_encoding(hh.executed.privilege_mode)

\* The pages a step takes from the free set: the data pages and the
\* page-table pages that MapMemory, IncreaseHeap or ensure_page newly map.
NewlyMapped == allocated_pages' \ allocated_pages

\* C38: every page newly mapped by MapMemory, IncreaseHeap or ensure_page,
\* and every page-table page newly allocated by ensure_page, holds only
\* zeros at the moment it is mapped, also when its frame was mapped before,
\* written by the guest and released by UnmapMemory.
C38_NewPagesZero ==
    [][panic' = "none"
          => \A p \in NewlyMapped : \A w \in TrackedWords : data[p][w] = 0]_vars

\* This step is a store_bytes that returned a StorePageFault.
StoreFaulted ==
    /\ AccessStep /\ ma'.op = "store" /\ ~ma'.ok
    /\ ma'.trap.code = StorePageFault

\* C39: a multi-byte store that returns StorePageFault leaves data memory
\* unchanged: no byte of the value is written, also when the store crosses a
\* page boundary and only the second page is unmapped or not writable.
C39_FaultedStoreWritesNothing ==
    [][StoreFaulted => ram' = ram]_vars

\* This step is an access that made one page walk, and the walk failed: the
\* access is inside one page, translated, and returned a page fault.
OneWalkFaulted ==
    /\ AccessStep /\ Translating /\ ~ma'.ok
    /\ (ma'.v_address % 4096) <= 4096 - ma'.width

\* C40: a page walk that ends in a page fault modifies no PTE: the A and D
\* bits of the leaf are written back only for accesses that pass the R/W/X
\* check of the leaf and, for superpages, the alignment check.
C40_FaultedWalkWritesNoPte ==
    [][OneWalkFaulted => ptes' = ptes]_vars

====
